---- MODULE Spec2Model ----
(***************************************************************************)
(* NutriBudget assistant: the conversation state machine of ChatManager    *)
(* (backend/utils/chat_manager.py), the /api/chat and /api/activity_log    *)
(* handlers of backend/app.py and the planner of backend/utils/            *)
(* meal_planner.py.                                                        *)
(*                                                                         *)
(* Texts are TLA+ strings, handled character by character (1-indexed).     *)
(* Money is kept in cents, so float("12.50") is 1250 and the accepted      *)
(* budget range [10, 10000] is 1000..1000000.  Timestamps of log entries   *)
(* are not modelled: an entry is the text after the "[HH:MM:SS] " prefix.  *)
(***************************************************************************)
EXTENDS Integers, Sequences, FiniteSets, TLC

VARIABLES
    sessions,   \* ChatManager.sessions: session id -> session dict
    api_key,    \* whether OPENAI_API_KEY is set in the environment
    pc,         \* where the /api/chat request in flight stands: "idle" when none is
    req,        \* the JSON body of the last /api/chat request
    response,   \* the response dict of that request
    work,       \* the locals of the planning run: the catalog and the attempt number
    memo,       \* what the text functions give for the messages and catalogs of the
                \* model, computed once in Init and never changed
    call        \* a call of a MealPlanner method made on its own: its arguments,
                \* the activity_log list it is given and what it returned

vars == <<sessions, api_key, pc, req, response, work, memo, call>>

\* ------------------------------------------------------------------ bounds

\* chat turns accepted over all sessions
MaxTurns == 4

\* ------------------------------------------------------- Python strings

\* the character s[i-1], "" outside the string
Ch(s, i) == IF 1 <= i /\ i <= Len(s) THEN SubSeq(s, i, i) ELSE ""

UpperCase == "ABCDEFGHIJKLMNOPQRSTUVWXYZ"

LowerCase == "abcdefghijklmnopqrstuvwxyz"

DigitChars == "0123456789"

RECURSIVE IndexIn(_, _, _)
\* position of character c in alphabet, scanning from i; 0 when absent
IndexIn(alphabet, c, i) ==
    IF i > Len(alphabet) THEN 0
    ELSE IF Ch(alphabet, i) = c THEN i
    ELSE IndexIn(alphabet, c, i + 1)

IsUpper(c) == IndexIn(UpperCase, c, 1) > 0

IsLower(c) == IndexIn(LowerCase, c, 1) > 0

IsDigit(c) == IndexIn(DigitChars, c, 1) > 0

IsSpace(c) == c \in {" ", "\t", "\n", "\r"}

LowerChar(c) ==
    LET k == IndexIn(UpperCase, c, 1)
    IN  IF k > 0 THEN Ch(LowerCase, k) ELSE c

RECURSIVE lower(_)
\* str.lower()
lower(s) == IF s = "" THEN "" ELSE LowerChar(Head(s)) \o lower(Tail(s))

\* s[i-1:].startswith(pat)
StartsAt(s, pat, i) ==
    /\ i >= 1
    /\ i + Len(pat) - 1 <= Len(s)
    /\ SubSeq(s, i, i + Len(pat) - 1) = pat

RECURSIVE find(_, _, _)
\* str.find(pat, i-1) + 1: the first position >= i where pat occurs, else 0
find(s, pat, i) ==
    IF i + Len(pat) - 1 > Len(s) THEN 0
    ELSE IF SubSeq(s, i, i + Len(pat) - 1) = pat THEN i
    ELSE find(s, pat, i + 1)

\* pat in s
Contains(s, pat) == find(s, pat, 1) > 0

\* character classes of the regular expressions: \d, \s, [a-z], not-\s
InClass(cls, c) ==
    CASE cls = "digit" -> IsDigit(c)
      [] cls = "space" -> IsSpace(c)
      [] cls = "lower" -> IsLower(c)
      [] cls = "word"  -> ~IsSpace(c)

RECURSIVE RunEnd(_, _, _)
\* last position of the run of characters of class cls that starts at i
\* (i - 1 when s[i] is not in the class)
RunEnd(s, i, cls) ==
    IF i <= Len(s) /\ InClass(cls, Ch(s, i)) THEN RunEnd(s, i + 1, cls) ELSE i - 1

RECURSIVE ToInt(_)
\* int(s) for a string of digits
ToInt(s) ==
    IF s = "" THEN 0
    ELSE ToInt(SubSeq(s, 1, Len(s) - 1)) * 10
         + (IndexIn(DigitChars, Ch(s, Len(s)), 1) - 1)

RECURSIVE strip(_)
\* str.strip()
strip(s) ==
    IF s = "" THEN ""
    ELSE IF IsSpace(Head(s)) THEN strip(Tail(s))
    ELSE IF IsSpace(Ch(s, Len(s))) THEN strip(SubSeq(s, 1, Len(s) - 1))
    ELSE s

RECURSIVE SplitFrom(_, _)
\* str.split() of s[i-1:]: the maximal runs of non-whitespace characters
SplitFrom(s, i) ==
    IF i > Len(s) THEN << >>
    ELSE IF IsSpace(Ch(s, i)) THEN SplitFrom(s, i + 1)
    ELSE LET e == RunEnd(s, i, "word")
         IN  <<SubSeq(s, i, e)>> \o SplitFrom(s, e + 1)

split(s) == SplitFrom(s, 1)

\* the least element of a non-empty set of integers
Least(S) == CHOOSE x \in S : \A y \in S : x <= y

\* ------------------------------------------------------------------ inputs

\* the session ids and the texts that clients send
SessionIds == {"default", "guest"}

Messages ==
    { "Hello",
      "Yes",
      "no",
      "3 people",
      "4 people in Toronto with a budget of $100, no restrictions",
      "2 people in Ottawa, budget $50, vegan" }

\* ---------------------------------------------------------- Python dicts

\* d[k] = v
Put(d, k, v) == [x \in DOMAIN d \cup {k} |-> IF x = k THEN v ELSE d[x]]

Has(d, k) == k \in DOMAIN d

\* bool(d.get(k)) for the slots: a number is truthy unless 0, a string or a
\* list unless empty
Truthy(d, k) ==
    /\ Has(d, k)
    /\ CASE k \in {"people", "budget"}        -> d[k] # 0
         [] k \in {"location", "preferences"} -> d[k] # ""
         [] k = "dietary_restrictions"        -> d[k] # << >>
         [] OTHER                             -> TRUE

\* x in lst
InSeq(x, lst) == \E i \in 1..Len(lst) : lst[i] = x

\* ------------------------------------------- regular-expression fragments

NoMatch == 0 - 1

\* index of the first alternative of alts that occurs at position p, else 0
AltAt(s, alts, p) ==
    LET hits == {k \in 1..Len(alts) : StartsAt(s, alts[k], p)}
    IN  IF hits = {} THEN 0 ELSE Least(hits)

\* (\d+(?:\.\d{2})?) at i: the last position of the number, decimals included
NumEnd(s, i) ==
    LET e == RunEnd(s, i, "digit")
    IN  IF Ch(s, e + 1) = "." /\ IsDigit(Ch(s, e + 2)) /\ IsDigit(Ch(s, e + 3))
        THEN e + 3 ELSE e

\* float(s[i-1:e]) in cents
ToCents(s, i, e) ==
    LET d == RunEnd(s, i, "digit")
    IN  ToInt(SubSeq(s, i, d)) * 100
        + (IF e > d THEN ToInt(SubSeq(s, d + 2, e)) ELSE 0)

\* what follows a lazy ".*?": the position of the first digit of the captured
\* number when the continuation matches at q, else 0
TailAt(s, q, tail) ==
    CASE tail = "digits" ->                      \* (\d+)
           IF IsDigit(Ch(s, q)) THEN q ELSE 0
      [] tail = "amount" ->                      \* \$?\s*(\d+...)
           LET a == IF Ch(s, q) = "$" THEN q + 1 ELSE q
               b == RunEnd(s, a, "space") + 1
           IN  IF IsDigit(Ch(s, b)) THEN b ELSE 0
      [] tail = "dollar" ->                      \* \$(\d+...)
           IF Ch(s, q) = "$" /\ IsDigit(Ch(s, q + 1)) THEN q + 1 ELSE 0

RECURSIVE DotLazy(_, _, _)
\* ".*?" from q followed by tail: "." matches anything but a newline
DotLazy(s, q, tail) ==
    LET d == TailAt(s, q, tail)
    IN  IF d > 0 THEN d
        ELSE IF q > Len(s) \/ Ch(s, q) = "\n" THEN 0
        ELSE DotLazy(s, q + 1, tail)

\* re.search(r'(?:k1|k2|..).*?<tail>'): the position of the first digit of
\* the number captured by the leftmost match, else 0
KeywordThen(s, keywords, tail) ==
    LET after(p) == DotLazy(s, p + Len(keywords[AltAt(s, keywords, p)]), tail)
        starts == {p \in 1..Len(s) : AltAt(s, keywords, p) > 0 /\ after(p) > 0}
    IN  IF starts = {} THEN 0 ELSE after(Least(starts))

\* re.search(r'(\d+)\s*(?:u1|u2|..)'), or with (\d+(?:\.\d{2})?) when decimals:
\* the start of the leftmost number followed by one of the units, else 0
NumberThen(s, units, decimals) ==
    LET fits(e) == AltAt(s, units, RunEnd(s, e + 1, "space") + 1) > 0
        ok(i) == \/ fits(RunEnd(s, i, "digit"))
                 \/ (decimals /\ fits(NumEnd(s, i)))
        starts == {i \in 1..Len(s) : IsDigit(Ch(s, i)) /\ ok(i)}
    IN  IF starts = {} THEN 0 ELSE Least(starts)

RECURSIVE TitleEnd(_, _)
\* [A-Z][a-z]+(?:\s+[A-Z][a-z]+)* at c, greedy: its last position, else 0
TitleEnd(s, c) ==
    IF IsUpper(Ch(s, c)) /\ IsLower(Ch(s, c + 1))
    THEN LET e == RunEnd(s, c + 1, "lower")
             w == RunEnd(s, e + 1, "space")
             n == IF w > e THEN TitleEnd(s, w + 1) ELSE 0
         IN  IF n > 0 THEN n ELSE e
    ELSE 0

RECURSIVE TitleEnds(_, _)
\* every position at which [A-Z][a-z]+(?:\s+[A-Z][a-z]+)* at c can end
TitleEnds(s, c) ==
    IF IsUpper(Ch(s, c)) /\ IsLower(Ch(s, c + 1))
    THEN LET e == RunEnd(s, c + 1, "lower")
             w == RunEnd(s, e + 1, "space")
         IN  (c + 1 .. e) \cup (IF w > e THEN TitleEnds(s, w + 1) ELSE {})
    ELSE {}

\* ------------------------------------------------ ChatManager: extraction

\* bounds of an accepted household size
MinPeople == 1

MaxPeople == 20

\* bounds of an accepted budget, in dollars
MinBudget == 10

MaxBudget == 10000

\* characters of context looked at on either side of a dollar amount
ContextWindow == 20

\* re.findall(pattern, text_lower)[0] for people_patterns[k], NoMatch if none
PeoplePattern(text_lower, k) ==
    LET d == CASE k = 1 -> NumberThen(text_lower,
                               <<"people", "person", "persons", "household", "members">>, FALSE)
               [] k = 2 -> KeywordThen(text_lower,
                               <<"household", "family", "feeding", "serving">>, "digits")
               [] k = 3 -> NumberThen(text_lower, <<"people", "person">>, FALSE)
    IN  IF d = 0 THEN NoMatch
        ELSE ToInt(SubSeq(text_lower, d, RunEnd(text_lower, d, "digit")))

\* a loop over people_patterns that knows only the second pattern, a number
\* behind "household", "family", "feeding" or "serving"
ExtractPeople_keyword_first(text_lower) ==
    IF /\ PeoplePattern(text_lower, 2) # NoMatch
       /\ MinPeople <= PeoplePattern(text_lower, 2)
       /\ PeoplePattern(text_lower, 2) <= MaxPeople
    THEN PeoplePattern(text_lower, 2) ELSE NoMatch

\* a loop over people_patterns that stores a match of any size
ExtractPeople_any_size(text_lower) ==
    LET matched == {k \in 1..3 : PeoplePattern(text_lower, k) # NoMatch}
    IN  IF matched = {} THEN NoMatch ELSE PeoplePattern(text_lower, Least(matched))

\* the household size the loop over people_patterns stores, NoMatch if none
ExtractPeople(text_lower) ==
    LET valid == {k \in 1..3 : /\ PeoplePattern(text_lower, k) # NoMatch
                               /\ MinPeople <= PeoplePattern(text_lower, k)
                               /\ PeoplePattern(text_lower, k) <= MaxPeople}
    IN  IF valid = {} THEN NoMatch ELSE PeoplePattern(text_lower, Least(valid))

\* a range test without the upper limit
BudgetInRange_no_upper(cents) == MinBudget * 100 <= cents

\* 10 <= budget_value <= 10000
BudgetInRange(cents) == MinBudget * 100 <= cents /\ cents <= MaxBudget * 100

\* the number that budget tier k captures, in cents; NoMatch if it does not match
BudgetTier(text_lower, k) ==
    LET s == text_lower
        amount(d) == IF d = 0 THEN NoMatch ELSE ToCents(s, d, NumEnd(s, d))
    IN  CASE k = 1 -> amount(KeywordThen(s, <<"budget">>, "amount"))
          [] k = 2 -> amount(KeywordThen(s, <<"budget", "spend", "afford">>, "dollar"))
          [] k = 3 ->
               LET dollars == {p \in 1..Len(s) : Ch(s, p) = "$" /\ IsDigit(Ch(s, p + 1))}
               IN  IF dollars = {} THEN NoMatch
                   ELSE LET start == Least(dollars)
                            e == NumEnd(s, start + 1)
                            w == RunEnd(s, e + 1, "space")
                            units == <<"cad", "usd", "per week", "weekly", "a week", "budget">>
                            u == AltAt(s, units, w + 1)
                            end == IF u > 0 THEN w + Len(units[u]) ELSE w
                            lo == IF start - ContextWindow > 1
                                  THEN start - ContextWindow ELSE 1
                            hi == IF end + ContextWindow < Len(s)
                                  THEN end + ContextWindow ELSE Len(s)
                            context_text == SubSeq(s, lo, start - 1) \o SubSeq(s, end + 1, hi)
                        IN  IF \E word \in {"budget", "spend", "afford", "cost", "weekly", "week"} :
                                   Contains(context_text, word)
                            THEN ToCents(s, start + 1, e) ELSE NoMatch
          [] k = 4 ->
               IF Contains(s, "budget")
               THEN LET units == <<"cad", "usd", "dollar", "dollars">>
                        d == NumberThen(s, units, TRUE)
                        full == NumEnd(s, d)
                        fits == AltAt(s, units, RunEnd(s, full + 1, "space") + 1) > 0
                    IN  IF d = 0 THEN NoMatch
                        ELSE IF fits THEN ToCents(s, d, full)
                        ELSE ToCents(s, d, RunEnd(s, d, "digit"))
               ELSE NoMatch

\* an extractor that stores the first dollar amount of the text, whatever
\* stands around it
ExtractBudget_any_dollar(text_lower) ==
    LET dollars == {p \in 1..Len(text_lower) :
                       Ch(text_lower, p) = "$" /\ IsDigit(Ch(text_lower, p + 1))}
    IN  IF dollars = {} THEN NoMatch
        ELSE ToCents(text_lower, Least(dollars) + 1, NumEnd(text_lower, Least(dollars) + 1))

\* the budget the four tiers store: the first tier, in order, whose number is
\* in range (a tier runs only while budget_found is false); NoMatch if none
ExtractBudget(text_lower) ==
    LET found == {k \in 1..4 : /\ BudgetTier(text_lower, k) # NoMatch
                               /\ BudgetInRange(BudgetTier(text_lower, k))}
    IN  IF found = {} THEN NoMatch ELSE BudgetTier(text_lower, Least(found))

NotCities == {"the", "and", "or", "for", "with"}

\* re.findall(pattern, text)[0].strip() for location_patterns[k], "" if none
LocationPattern(text, k) ==
    CASE k = 1 ->
           LET prefixes == <<"in", "at", "location:", "location", "shopping in">>
               city(p, a) == RunEnd(text, p + Len(prefixes[a]), "space") + 1
               hit(p, a) == /\ StartsAt(text, prefixes[a], p)
                            /\ city(p, a) > p + Len(prefixes[a])
                            /\ TitleEnd(text, city(p, a)) > 0
               alt(p) == Least({a \in 1..Len(prefixes) : hit(p, a)})
               starts == {p \in 1..Len(text) : \E a \in 1..Len(prefixes) : hit(p, a)}
           IN  IF starts = {} THEN ""
               ELSE LET p == Least(starts)
                        c == city(p, alt(p))
                    IN  strip(SubSeq(text, c, TitleEnd(text, c)))
      [] k = 2 ->
           LET ends(c) == {e \in TitleEnds(text, c) :
                             AltAt(text, <<"city", "area">>, RunEnd(text, e + 1, "space") + 1) > 0}
               starts == {c \in 1..Len(text) : ends(c) # {}}
           IN  IF starts = {} THEN ""
               ELSE LET c == Least(starts)
                        e == CHOOSE x \in ends(c) : \A y \in ends(c) : y <= x
                    IN  strip(SubSeq(text, c, e))

\* the location the loop over location_patterns stores, "" if none
ExtractLocation(text) ==
    LET ok(k) == LocationPattern(text, k) # "" /\ lower(LocationPattern(text, k)) \notin NotCities
    IN  IF ok(1) THEN LocationPattern(text, 1)
        ELSE IF ok(2) THEN LocationPattern(text, 2)
        ELSE ""

\* the first capitalised word the fallback loop over text.split() stores, "" if none
CapitalisedWord(text) ==
    LET words == split(text)
        likely == {i \in 1..Len(words) :
                     /\ IsUpper(Ch(words[i], 1)) /\ Len(words[i]) > 2
                     /\ i > 1
                     /\ lower(words[i]) \notin
                          {"i", "the", "and", "or", "for", "with", "no", "none"}}
    IN  IF likely = {} THEN "" ELSE words[Least(likely)]

\* dietary_keywords, in the order of the dict
dietary_keywords ==
    << [tag |-> "vegetarian",         keywords |-> {"vegetarian", "veggie"}],
       [tag |-> "vegan",              keywords |-> {"vegan"}],
       [tag |-> "gluten-free",        keywords |-> {"gluten-free", "gluten free", "celiac"}],
       [tag |-> "lactose-intolerant", keywords |-> {"lactose", "dairy-free", "dairy free"}],
       [tag |-> "nut-free",           keywords |-> {"nut-free", "nut free", "peanut"}],
       [tag |-> "halal",              keywords |-> {"halal"}],
       [tag |-> "kosher",             keywords |-> {"kosher"}],
       [tag |-> "pescatarian",        keywords |-> {"pescatarian", "pescetarian"}] >>

\* any(keyword in text_lower for keyword in keywords) for entry k of dietary_keywords
Mentions(text_lower, k) ==
    \E keyword \in dietary_keywords[k].keywords : Contains(text_lower, keyword)

RECURSIVE MentionedFrom(_, _)
\* Mentions for the entries of dietary_keywords from entry k on
MentionedFrom(text_lower, k) ==
    IF k > Len(dietary_keywords) THEN << >>
    ELSE <<Mentions(text_lower, k)>> \o MentionedFrom(text_lower, k + 1)

\* a loop over dietary_keywords that starts from an empty list: the tags
\* of this text replace those already stored
AppendRestrictions_replacing(restrictions, mentioned, k) ==
    LET tags[i \in 0..Len(dietary_keywords)] ==
            IF i = 0 THEN << >>
            ELSE IF mentioned[i] THEN Append(tags[i - 1], dietary_keywords[i].tag)
            ELSE tags[i - 1]
    IN  tags[Len(dietary_keywords)]

RECURSIVE AppendRestrictions(_, _, _)
\* the loop over dietary_keywords from entry k on; mentioned[k] tells whether
\* the text holds a keyword of entry k
AppendRestrictions(restrictions, mentioned, k) ==
    IF k > Len(dietary_keywords) THEN restrictions
    ELSE AppendRestrictions(
             IF mentioned[k] /\ ~InSeq(dietary_keywords[k].tag, restrictions)
             THEN Append(restrictions, dietary_keywords[k].tag) ELSE restrictions,
             mentioned, k + 1)

\* re.findall(pattern, text_lower)[0] for preference_patterns[k]; the result
\* is <<found, captured text>>
PreferencePattern(text_lower, k) ==
    LET s == text_lower
        n == Len(s)
        keywords == IF k = 1 THEN <<"like", "love", "prefer", "favorite", "favourite">>
                    ELSE <<"prefer">>
        \* the start of (.+?) behind the keyword at p: behind the whitespace,
        \* or on its last character when nothing else is left on the line
        first(p, a) ==
            LET b == p + Len(keywords[a])
                w == RunEnd(s, b, "space")
            IN  IF w < b THEN 0
                ELSE IF w < n /\ Ch(s, w + 1) # "\n" THEN w + 1
                ELSE IF w > b /\ Ch(s, w) # "\n" THEN w
                ELSE 0
        \* the last position of (.+?) starting at c, 0 if the pattern fails
        last(c) ==
            IF k = 1
            THEN LET stops == {e \in c..n :
                                 /\ \A x \in c..e : Ch(s, x) # "\n"
                                 /\ \/ e = n
                                    \/ Ch(s, e + 1) \in {".", ","}
                                    \/ (e + 1 = n /\ Ch(s, n) = "\n")}
                 IN  IF stops = {} THEN 0 ELSE Least(stops)
            ELSE LET stops == {e \in c..n :
                                 /\ \A x \in c..e : Ch(s, x) # "\n"
                                 /\ IsSpace(Ch(s, e + 1))
                                 /\ StartsAt(s, "over", RunEnd(s, e + 1, "space") + 1)}
                 IN  IF stops = {} THEN 0 ELSE Least(stops)
        hit(p, a) == /\ StartsAt(s, keywords[a], p)
                     /\ first(p, a) > 0
                     /\ last(first(p, a)) > 0
        starts == {p \in 1..n : \E a \in 1..Len(keywords) : hit(p, a)}
    IN  IF starts = {} THEN <<FALSE, "">>
        ELSE LET p == Least(starts)
                 a == Least({x \in 1..Len(keywords) : hit(p, x)})
                 c == first(p, a)
             IN  <<TRUE, SubSeq(s, c, last(c))>>

\* what _extract_user_data reads off the text alone, before it merges it
\* into existing_data
TextScan(text) ==
    LET text_lower == lower(text)
    IN  [text_lower |-> text_lower,
         people |-> ExtractPeople(text_lower),
         budget |-> ExtractBudget(text_lower),
         city |-> ExtractLocation(text),
         word |-> CapitalisedWord(text),
         mentioned |-> MentionedFrom(text_lower, 1),
         like |-> PreferencePattern(text_lower, 1),
         prefer_over |-> PreferencePattern(text_lower, 2),
         mentions_preference |->
             \E w \in {"prefer", "like", "favorite"} : Contains(text_lower, w),
         none |-> \/ Contains(text_lower, "no preferences")
                  \/ Contains(text_lower, "no dietary")
                  \/ (Contains(text_lower, "no") /\ Contains(text_lower, "allergies"))]

RECURSIVE ScanAll(_)
\* the function that maps each text of the set to its TextScan
ScanAll(texts) ==
    IF texts = {} THEN << >>
    ELSE LET text == CHOOSE t \in texts : TRUE
         IN  (text :> TextScan(text)) @@ ScanAll(texts \ {text})

\* TextScan(text) for a message of the model, as Init computed it
Scanned(text) == memo.scan[text]

\* ChatManager._extract_user_data(text, existing_data): the dict returned, given
\* what the function reads off the text
MergeScan(scan, text, existing_data) ==
    LET people(d) == IF scan.people # NoMatch THEN Put(d, "people", scan.people) ELSE d
        budget(d) == IF scan.budget # NoMatch THEN Put(d, "budget", scan.budget) ELSE d
        location(d) == IF scan.city # "" THEN Put(d, "location", scan.city) ELSE d
        word(d) == IF ~Truthy(d, "location") /\ scan.word # ""
                   THEN Put(d, "location", scan.word) ELSE d
        restrictions(d) ==
            Put(d, "dietary_restrictions",
                AppendRestrictions(IF Has(d, "dietary_restrictions")
                                   THEN d["dietary_restrictions"] ELSE << >>,
                                   scan.mentioned, 1))
        \* preferences after the loop over preference_patterns
        preferences(d) ==
            (IF Has(d, "preferences") THEN d["preferences"] ELSE "")
            \o (IF scan.like[1] THEN " " \o scan.like[2] ELSE "")
            \o (IF scan.prefer_over[1] THEN " " \o scan.prefer_over[2] ELSE "")
        prefer(d, stripped) ==
            IF stripped # "" THEN Put(d, "preferences", stripped)
            ELSE IF scan.mentions_preference /\ ~Truthy(d, "preferences")
                 THEN Put(d, "preferences", text)
            ELSE d
        preferred(d) == prefer(d, strip(preferences(d)))
        no_restrictions(d) == IF scan.none /\ ~Truthy(d, "dietary_restrictions")
                              THEN Put(d, "dietary_restrictions", << >>) ELSE d
        no_preferences(d) == IF scan.none /\ ~Truthy(d, "preferences")
                             THEN Put(d, "preferences", "") ELSE d
    IN  no_preferences(no_restrictions(preferred(restrictions(
            word(location(budget(people(existing_data))))))))

\* ChatManager._extract_user_data(text, existing_data): the dict returned
_extract_user_data(text, existing_data) == MergeScan(Scanned(text), text, existing_data)

\* ----------------------------------------------------- ChatManager: texts

RECURSIVE FormatInt(_)
\* str(n) for n >= 0
FormatInt(n) ==
    IF n < 10 THEN Ch(DigitChars, n + 1)
    ELSE FormatInt(n \div 10) \o Ch(DigitChars, (n % 10) + 1)

\* f"{x:.2f}" for an amount kept in cents
FormatMoney(cents) ==
    FormatInt(cents \div 100) \o "." \o
    Ch(DigitChars, ((cents % 100) \div 10) + 1) \o Ch(DigitChars, (cents % 10) + 1)

RECURSIVE join(_, _)
\* sep.join(lst)
join(sep, lst) ==
    IF lst = << >> THEN ""
    ELSE IF Len(lst) = 1 THEN lst[1]
    ELSE lst[1] \o sep \o join(sep, Tail(lst))

welcome_message == "Welcome to NutriBudget AI! To get started, I'll need the following information: ..."

processing_message == "Perfect! Let me research the best affordable ingredients in your area and create your personalized meal plan. This will take just a moment..."

reset_message == "No problem! Let's start over. Please provide: ..."

clarify_message == "Please confirm: Is the information correct? (Yes/No)"

help_message == "I'm here to help you create an affordable meal plan! Please provide: ..."

apology_message == "I apologize, but I'm having trouble processing that. Could you try again?"

\* the text the chat-completion call returns when it succeeds
gpt_text == "<chat completion>"

\* what a call of the chat-completion API can do: return a text, or raise
GptOutcomes == {"text", "raise"}

\* ChatManager.test_mode: TEST_MODE is unset, so it is true without an API key
test_mode(key) == ~key

static_prompts ==
    [x \in {"Weekly budget", "Household size", "Location"} |->
        CASE x = "Weekly budget"  -> "I need your weekly food budget. Please provide the amount ..."
          [] x = "Household size" -> "How many people are you feeding? Please provide a number ..."
          [] x = "Location"       -> "Which city are you shopping in? Please provide your location ..."]

\* ChatManager._get_dynamic_prompt(field_name, ..): gpt is what the API call does
_get_dynamic_prompt(field_name, key, gpt) ==
    IF test_mode(key) \/ ~key THEN static_prompts[field_name]
    ELSE IF gpt = "text" THEN gpt_text
    ELSE static_prompts[field_name]

\* _get_gpt_response that answers with the confirmation request
_get_gpt_response_clarify(key, gpt) == clarify_message

\* ChatManager._get_gpt_response(..)['message']: gpt is what the API call does
_get_gpt_response(key, gpt) ==
    IF test_mode(key) \/ ~key THEN help_message
    ELSE IF gpt = "text" THEN gpt_text
    ELSE apology_message

\* _check_missing_fields that always reports the location as missing
_check_missing_fields_location(user_data) ==
    (IF Truthy(user_data, "people") THEN << >> ELSE <<"Household size">>) \o
    (IF Truthy(user_data, "budget") THEN << >> ELSE <<"Weekly budget">>) \o
    <<"Location">>

\* _check_missing_fields that asks for the budget only
_check_missing_fields_budget_only(user_data) ==
    IF Truthy(user_data, "budget") THEN << >> ELSE <<"Weekly budget">>

\* ChatManager._check_missing_fields(user_data): the labels of the missing slots
_check_missing_fields(user_data) ==
    (IF Truthy(user_data, "people") THEN << >> ELSE <<"Household size">>) \o
    (IF Truthy(user_data, "budget") THEN << >> ELSE <<"Weekly budget">>) \o
    (IF Truthy(user_data, "location") THEN << >> ELSE <<"Location">>)

\* ChatManager._generate_confirmation(user_data)
_generate_confirmation(user_data) ==
    LET dietary == IF Has(user_data, "dietary_restrictions")
                   THEN user_data["dietary_restrictions"] ELSE << >>
        preferences == IF Has(user_data, "preferences") THEN user_data["preferences"] ELSE ""
        dietary_str == IF dietary # << >> THEN join(", ", dietary) ELSE "None"
        preferences_str == IF preferences # "" /\ lower(preferences) \notin {"none", "no", "n/a", ""}
                           THEN preferences ELSE "None"
        message ==
            "Just to confirm your information: Household Size: " \o
            (IF Truthy(user_data, "people")
             THEN FormatInt(user_data["people"]) \o " people" ELSE "Not provided") \o
            " Weekly Budget: " \o
            (IF Truthy(user_data, "budget")
             THEN "$" \o FormatMoney(user_data["budget"]) \o " CAD" ELSE "Not provided") \o
            " Location: " \o
            (IF Truthy(user_data, "location") THEN user_data["location"] ELSE "Not provided") \o
            " Dietary Restrictions: " \o dietary_str \o
            " Preferences: " \o preferences_str \o
            " Is this information correct? (Yes/No)"
    IN  [message |-> message, user_data |-> user_data]

\* ------------------------------------------------- ChatManager: sessions

\* the session get_session creates
NewSession ==
    [state |-> "welcome", user_data |-> << >>, conversation_history |-> << >>,
     activity_log |-> << >>, status |-> "idle"]

\* get_session that replaces the session by a new one on every call
get_session_fresh(store, session_id) == Put(store, session_id, NewSession)

\* ChatManager.get_session(session_id): self.sessions after the call (the
\* session returned is get_session(store, session_id)[session_id])
get_session(store, session_id) ==
    IF session_id \notin DOMAIN store THEN Put(store, session_id, NewSession) ELSE store

\* add_activity_log that puts the entry in front of the log
add_activity_log_front(store, session_id, message) ==
    LET got == get_session(store, session_id)
    IN  [got EXCEPT ![session_id].activity_log = <<message>> \o @]

\* ChatManager.add_activity_log(session_id, message): self.sessions after the call
add_activity_log(store, session_id, message) ==
    LET got == get_session(store, session_id)
    IN  [got EXCEPT ![session_id].activity_log = Append(@, message)]

\* the greetings, and "yes"
GreetingsOrYes == {"get started", "start", "hello", "hi", "begin", "yes"}

Greetings == {"get started", "start", "hello", "hi", "begin"}

\* the affirmative answers without "yes"
AffirmativeWithoutYes == {"y", "correct", "yeah", "sure", "ok", "okay", "confirmed"}

Affirmative == {"yes", "y", "correct", "yeah", "sure", "ok", "okay", "confirmed"}

\* the negative answers without "no"
NegativeWithoutNo == {"n", "incorrect", "wrong", "change"}

\* the negative answers, and a message that names a household size
NegativeOrPeople == {"no", "n", "incorrect", "wrong", "change", "3 people"}

Negative == {"no", "n", "incorrect", "wrong", "change"}

\* ChatManager.process_message(session_id, user_message): self.sessions after
\* the call and the dict returned; gpt is what a chat-completion call does
process_message(store, key, session_id, user_message, gpt) ==
    LET text_lower == Scanned(user_message).text_lower
        said(st, message) == [st EXCEPT ![session_id].conversation_history =
                                 Append(@, [role |-> "assistant", content |-> message])]
        \* the collecting_info branch, from the dict _extract_user_data returned
        collect(heard, extracted_data) ==
            LET missing_fields == _check_missing_fields(extracted_data)
                stored == [heard EXCEPT ![session_id].user_data = extracted_data]
            IN  IF missing_fields # << >>
                THEN [sessions |-> stored,
                      response |->
                         [message |->
                              IF Len(missing_fields) = 1
                              THEN _get_dynamic_prompt(missing_fields[1], key, gpt)
                              ELSE "I'm still missing: " \o join(", ", missing_fields)
                                   \o ". Could you provide these details?",
                          state |-> "collecting_info", user_data |-> extracted_data]]
                ELSE IF ~Truthy(extracted_data, "budget")
                THEN [sessions |-> stored,
                      response |-> [message |-> _get_dynamic_prompt("Weekly budget", key, gpt),
                                    state |-> "collecting_info",
                                    user_data |-> extracted_data]]
                ELSE [sessions |-> [stored EXCEPT ![session_id].state = "confirm"],
                      response |-> Put(_generate_confirmation(extracted_data),
                                       "state", "confirm")]
        \* the else branch, from the text _get_gpt_response returned
        converse(heard, message) ==
            [sessions |-> said(heard, message),
             response |-> [message |-> message, state |-> heard[session_id].state,
                           user_data |-> heard[session_id].user_data]]
        \* the function from the session get_session returned
        answer(got) ==
            LET state == got[session_id].state
                user_data == got[session_id].user_data
                heard == [got EXCEPT ![session_id].conversation_history =
                             Append(@, [role |-> "user", content |-> user_message])]
            IN  IF state = "welcome" /\ text_lower \in Greetings
                THEN [sessions |-> said([heard EXCEPT ![session_id].state = "collecting_info"],
                                        welcome_message),
                      response |-> [message |-> welcome_message, state |-> "collecting_info",
                                    user_data |-> user_data]]
                ELSE IF state = "collecting_info"
                THEN collect(heard, _extract_user_data(user_message, user_data))
                ELSE IF state = "confirm"
                THEN IF text_lower \in Affirmative
                     THEN [sessions |->
                              said(add_activity_log(
                                       [heard EXCEPT ![session_id].state = "processing"],
                                       session_id, "Collecting user preferences... done"),
                                   processing_message),
                           response |-> [message |-> processing_message, state |-> "processing",
                                         user_data |-> user_data, ready_for_meal_plan |-> TRUE]]
                     ELSE IF text_lower \in Negative
                     THEN [sessions |->
                              said([heard EXCEPT ![session_id].state = "collecting_info",
                                                 ![session_id].user_data = << >>],
                                   reset_message),
                           response |-> [message |-> reset_message, state |-> "collecting_info",
                                         user_data |-> << >>, reset |-> TRUE]]
                     ELSE [sessions |-> said(heard, clarify_message),
                           response |-> [message |-> clarify_message, state |-> "confirm",
                                         user_data |-> user_data]]
                ELSE converse(heard, _get_gpt_response(key, gpt))
    IN  answer(get_session(store, session_id))

\* should_generate_meal_plan without the test of the state and of the
\* meal_plan_generated flag: the plan is due as soon as the slots are there
should_generate_with_slots(store, session_id) ==
    LET user_data == get_session(store, session_id)[session_id].user_data
    IN  Truthy(user_data, "budget") /\ Truthy(user_data, "people")
        /\ Truthy(user_data, "location")

\* should_generate_meal_plan that never finds the plan due
should_generate_never(store, session_id) == FALSE

\* ChatManager.should_generate_meal_plan(session_id): the truth value returned
should_generate_meal_plan(store, session_id) ==
    LET session == get_session(store, session_id)[session_id]
        user_data == session.user_data
    IN  /\ session.state = "processing"
        /\ Truthy(user_data, "budget")
        /\ Truthy(user_data, "people")
        /\ Truthy(user_data, "location")
        /\ ~(Has(session, "meal_plan_generated") /\ session.meal_plan_generated)

\* --------------------------------------------------------------- catalogs

Item(name, cents, category, unit) ==
    [name |-> name, price |-> cents, store |-> "Walmart", category |-> category, unit |-> unit]

\* PerplexityClient._get_mock_ingredients(location, budget)
_get_mock_ingredients ==
    << Item("Brown Rice", 250, "grains", "per lb"),
       Item("Chicken Breast", 499, "proteins", "per lb"),
       Item("Black Beans", 125, "proteins", "per can"),
       Item("Eggs", 299, "proteins", "per dozen"),
       Item("Potatoes", 399, "vegetables", "per 5 lbs"),
       Item("Carrots", 150, "vegetables", "per lb"),
       Item("Broccoli", 299, "vegetables", "per lb"),
       Item("Onions", 199, "vegetables", "per 3 lbs"),
       Item("Bananas", 199, "fruits", "per lb"),
       Item("Apples", 299, "fruits", "per lb"),
       Item("Whole Wheat Bread", 250, "grains", "per loaf"),
       Item("Oats", 299, "grains", "per container"),
       Item("Ground Turkey", 450, "proteins", "per lb"),
       Item("Spinach", 250, "vegetables", "per bag"),
       Item("Tomatoes", 299, "vegetables", "per lb"),
       Item("Pasta", 199, "grains", "per box"),
       Item("Canned Tuna", 175, "proteins", "per can"),
       Item("Peanut Butter", 350, "proteins", "per jar"),
       Item("Milk", 499, "dairy", "per gallon"),
       Item("Cheese", 399, "dairy", "per block"),
       Item("Yogurt", 299, "dairy", "per container"),
       Item("Cabbage", 199, "vegetables", "per head"),
       Item("Bell Peppers", 250, "vegetables", "per lb"),
       Item("Garlic", 150, "vegetables", "per bulb"),
       Item("Lentils", 225, "proteins", "per lb") >>

\* a catalog the research API found: short, and matching few meal templates
ResearchedCatalog ==
    << Item("Oats", 189, "grains", "per container"),
       Item("Bananas", 149, "fruits", "per lb"),
       Item("Tofu", 279, "proteins", "per block") >>

\* the catalogs of the model
Catalogs == {_get_mock_ingredients, ResearchedCatalog}

\* ------------------------------------------------------------ MealPlanner

\* one generation attempt more than generate_meal_plan makes
max_retries_more == 3 + 1

\* generation attempts of generate_meal_plan
max_retries == 3

\* a grocery list that takes in the whole mock catalog
GroceryLimit_more == 20 + 5

\* catalog entries copied into the fallback grocery list
GroceryLimit == 20

Ing(name, quantity) == [name |-> name, quantity |-> quantity]

Meal(name, ingredients, recipe, cooking_time, difficulty, cents) ==
    [name |-> name, ingredients |-> ingredients, recipe |-> recipe,
     cooking_time |-> cooking_time, difficulty |-> difficulty,
     cost |-> [num |-> cents, den |-> 1]]

\* a meal cost is the fraction num/den of a cent
breakfast_options ==
    << Meal("Oatmeal with Bananas",
            <<Ing("Oats", "1 cup"), Ing("Bananas", "2")>>,
            "Cook oats with water, top with sliced bananas.", "10 minutes", "easy", 250),
       Meal("Scrambled Eggs with Toast",
            <<Ing("Eggs", "3"), Ing("Whole Wheat Bread", "2 slices")>>,
            "Scramble eggs in a pan with a little oil. Toast bread.", "15 minutes", "easy", 300),
       Meal("Apple and Oatmeal",
            <<Ing("Oats", "1 cup"), Ing("Apples", "1")>>,
            "Cook oats, add diced apples and cinnamon if available.", "10 minutes", "easy", 275) >>

lunch_options ==
    << Meal("Rice and Beans",
            <<Ing("Brown Rice", "1 cup"), Ing("Black Beans", "1 can")>>,
            "Cook rice according to package. Heat beans.", "30 minutes", "easy", 375),
       Meal("Turkey Sandwich",
            <<Ing("Ground Turkey", "4 oz"), Ing("Whole Wheat Bread", "2 slices")>>,
            "Cook turkey, season, make sandwich with bread.", "20 minutes", "easy", 450),
       Meal("Vegetable Soup",
            <<Ing("Carrots", "1/2 cup"), Ing("Potatoes", "1/2 cup"), Ing("Onions", "1/4 cup")>>,
            "Chop vegetables, boil in water with seasonings until tender.",
            "25 minutes", "easy", 250) >>

dinner_options ==
    << Meal("Chicken with Vegetables",
            <<Ing("Chicken Breast", "6 oz"), Ing("Broccoli", "1 cup"), Ing("Carrots", "1/2 cup")>>,
            "Pan-fry chicken until cooked through. Steam vegetables.",
            "30 minutes", "medium", 600),
       Meal("Turkey with Potatoes",
            <<Ing("Ground Turkey", "6 oz"), Ing("Potatoes", "1 cup")>>,
            "Cook turkey, bake or boil potatoes until tender.", "35 minutes", "medium", 550),
       Meal("Rice Bowl with Vegetables",
            <<Ing("Brown Rice", "1 cup"), Ing("Spinach", "1 cup"), Ing("Tomatoes", "1/2 cup")>>,
            "Cook rice. Saute vegetables. Combine in a bowl.", "25 minutes", "easy", 400) >>

\* the days of a plan that leaves the weekend out
days_working == <<"Monday", "Tuesday", "Wednesday", "Thursday", "Friday">>

\* days of _create_fallback_meal_plan
days == <<"Monday", "Tuesday", "Wednesday", "Thursday", "Friday", "Saturday", "Sunday">>

cooking_tips ==
    << "Prep vegetables at the beginning of the week to save time",
       "Cook grains in bulk and store for multiple meals",
       "Use leftovers creatively for next day's lunch",
       "Season simply with salt, pepper, and basic spices",
       "Store cooked meals in airtight containers for up to 3 days" >>

storage_advice ==
    << "Store vegetables in the refrigerator crisper drawer",
       "Keep grains and dry goods in sealed containers",
       "Freeze meat if not using within 2 days",
       "Label and date all meal prep containers" >>

RECURSIVE LowerNamesOf(_)
\* [ing['name'].lower() for ing in ingredients]
LowerNamesOf(ingredients) ==
    IF ingredients = << >> THEN << >>
    ELSE <<lower(Head(ingredients).name)>> \o LowerNamesOf(Tail(ingredients))

\* a test that takes a name for available only when it contains a catalog name
FuzzyAvailable_contains(name, available) ==
    \E i \in 1..Len(available) : Contains(name, available[i])

\* any(avail in name or name in avail for avail in available), all lower case
FuzzyAvailable(name, available) ==
    \E i \in 1..Len(available) :
        Contains(name, available[i]) \/ Contains(available[i], name)

\* FuzzyAvailable for a name as written, against a catalog
NameAvailable(name, ingredients) == FuzzyAvailable(lower(name), LowerNamesOf(ingredients))

RECURSIVE AvailableAll(_, _)
\* the function that maps each name of the set to NameAvailable(name, ingredients)
AvailableAll(names, ingredients) ==
    IF names = {} THEN << >>
    ELSE LET name == CHOOSE x \in names : TRUE
         IN  (name :> NameAvailable(name, ingredients))
             @@ AvailableAll(names \ {name}, ingredients)

\* the ingredient names of the catalogs and of the generated plans of the model
KnownNames ==
    {_get_mock_ingredients[i].name : i \in 1..Len(_get_mock_ingredients)}
    \cup {ResearchedCatalog[i].name : i \in 1..Len(ResearchedCatalog)}
    \cup {"Saffron", "Truffle"}

\* NameAvailable(name, ingredients) for a name and a catalog of the model, as
\* Init computed it
IsAvailable(name, ingredients) == memo.available[ingredients][name]

\* ingredient_available(meal_ingredients) of _create_fallback_meal_plan
ingredient_available(meal_ingredients, available_lower) ==
    \A i \in 1..Len(meal_ingredients) :
        FuzzyAvailable(lower(meal_ingredients[i].name), available_lower)

RECURSIVE Filter(_, _)
\* [m for m in options if ingredient_available(m['ingredients'])]
Filter(options, available_lower) ==
    IF options = << >> THEN << >>
    ELSE (IF ingredient_available(Head(options).ingredients, available_lower)
          THEN <<Head(options)>> ELSE << >>) \o Filter(Tail(options), available_lower)

\* a pool that is never filtered
FilteredOrAll_unfiltered(options, available_lower) == options

\* [..filtered..] or options
FilteredOrAll(options, available_lower) ==
    IF Filter(options, available_lower) # << >>
    THEN Filter(options, available_lower) ELSE options

\* filtered_breakfast, filtered_lunch and filtered_dinner for a catalog
FilteredPools(ingredients) ==
    LET available_lower == LowerNamesOf(ingredients)
    IN  [breakfast |-> FilteredOrAll(breakfast_options, available_lower),
         lunch |-> FilteredOrAll(lunch_options, available_lower),
         dinner |-> FilteredOrAll(dinner_options, available_lower)]

\* FilteredPools(ingredients) for a catalog of the model, as Init computed it
Pools(ingredients) == memo.pools[ingredients]

RECURSIVE sum(_)
\* sum(lst) for a list of numbers
sum(lst) == IF lst = << >> THEN 0 ELSE Head(lst) + sum(Tail(lst))

\* round(n/d) to the nearest integer, a tie going to the even one
RoundDiv(n, d) ==
    LET q == n \div d
        r == n % d
    IN  IF 2 * r < d THEN q
        ELSE IF 2 * r > d THEN q + 1
        ELSE IF q % 2 = 0 THEN q ELSE q + 1

\* f"{tenths / 10:.1f}%"
FormatPercent(tenths) ==
    FormatInt(tenths \div 10) \o "." \o FormatInt(tenths % 10) \o "%"

\* the scale factor that brings the total to four fifths of the budget
scale_factor_four_fifths(budget, total_cost) == [num |-> 8 * budget, den |-> 10 * total_cost]

\* a factor that scales the total to the whole budget
scale_factor_full(budget, total_cost) == [num |-> budget, den |-> total_cost]

\* scale_factor = (budget * 0.9) / total_cost, as a fraction
scale_factor(budget, total_cost) == [num |-> 9 * budget, den |-> 10 * total_cost]

\* MealPlanner._create_fallback_meal_plan(user_data, ingredients, activity_log):
\* the plan returned and the entries appended to activity_log
_create_fallback_meal_plan(user_data, ingredients) ==
    LET people == IF Has(user_data, "people") THEN user_data["people"] ELSE 1
        given == Truthy(user_data, "budget") /\ user_data["budget"] > 0
        budget == IF given THEN user_data["budget"] ELSE 1200 * people * 7
        location == IF Has(user_data, "location") THEN user_data["location"] ELSE "Unknown"
        top == IF Len(ingredients) > GroceryLimit
               THEN SubSeq(ingredients, 1, GroceryLimit) ELSE ingredients
        grocery_list == [i \in 1..Len(top) |->
                            [ingredient |-> top[i].name, quantity |-> "varies",
                             unit |-> "as needed", estimated_cost |-> top[i].price,
                             category |-> top[i].category]]
        total_grocery_cost == sum([i \in 1..Len(grocery_list) |->
                                      grocery_list[i].estimated_cost])
        filtered_breakfast == Pools(ingredients).breakfast
        filtered_lunch == Pools(ingredients).lunch
        filtered_dinner == Pools(ingredients).dinner
        pick(pool, i) == pool[((i - 1) % Len(pool)) + 1]
        weekly_plan == [i \in 1..Len(days) |->
                           [day |-> days[i],
                            meals |-> [breakfast |-> pick(filtered_breakfast, i),
                                       lunch |-> pick(filtered_lunch, i),
                                       dinner |-> pick(filtered_dinner, i)]]]
        day_cost(d) == d.meals.breakfast.cost.num + d.meals.lunch.cost.num
                       + d.meals.dinner.cost.num
        total_cost == sum([i \in 1..Len(weekly_plan) |-> day_cost(weekly_plan[i])]) * people
        over == total_cost > budget
        \* cost * scale_factor, scale_factor = (budget * 0.9) / total_cost
        scaled(meal) == [meal EXCEPT !.cost =
                            [num |-> @.num * scale_factor(budget, total_cost).num,
                             den |-> @.den * scale_factor(budget, total_cost).den]]
        final_plan == IF over
                      THEN [i \in 1..Len(weekly_plan) |->
                               [weekly_plan[i] EXCEPT
                                   !.meals = [m \in DOMAIN @ |-> scaled(@[m])]]]
                      ELSE weekly_plan
        \* total_cost after the adjustment, as the fraction tnum/tden of a cent
        tnum == IF over THEN 9 * budget ELSE total_cost
        tden == IF over THEN 10 ELSE 1
    IN  [plan |->
            [grocery_list |-> grocery_list,
             total_grocery_cost |-> total_grocery_cost,
             days |-> final_plan,
             weekly_summary |->
                [total_cost |-> RoundDiv(tnum, tden),
                 serves |-> people,
                 location |-> location,
                 budget_utilization |-> IF budget > 0
                                        THEN FormatPercent(RoundDiv(tnum * 1000, tden * budget))
                                        ELSE "0.0%"],
             cooking_tips |-> cooking_tips,
             storage_advice |-> storage_advice],
         log |-> IF given THEN << >> ELSE <<"Warning: No budget provided, using estimated budget">>]

RECURSIVE InOrder(_)
\* the keys of the set, in one fixed order
InOrder(keys) ==
    IF keys = {} THEN << >>
    ELSE LET k == CHOOSE x \in keys : TRUE IN <<k>> \o InOrder(keys \ {k})

\* the keys of meals.items(), in the order the object was written: breakfast,
\* lunch and dinner, then any other key
meals_items(meals) ==
    SelectSeq(<<"breakfast", "lunch", "dinner">>, LAMBDA t : Has(meals, t))
    \o InOrder(DOMAIN meals \ {"breakfast", "lunch", "dinner"})

RECURSIVE MealNames(_, _)
\* ing.get('name') for ing in meal.get('ingredients', []), for the meals of
\* these keys in turn
MealNames(meals, keys) ==
    IF keys = << >> THEN << >>
    ELSE (IF Has(meals[Head(keys)], "ingredients")
          THEN [j \in 1..Len(meals[Head(keys)].ingredients) |->
                   meals[Head(keys)].ingredients[j].name]
          ELSE << >>) \o MealNames(meals, Tail(keys))

\* _validate_meal_plan that checks the grocery list and not the recipes
_validate_meal_plan_grocery_only(meal_plan, ingredients) ==
    LET grocery_list == IF Has(meal_plan, "grocery_list") THEN meal_plan["grocery_list"] ELSE << >>
        bad_items == {i \in 1..Len(grocery_list) :
                         ~IsAvailable(grocery_list[i].ingredient, ingredients)}
    IN  IF bad_items # {}
        THEN [valid |-> FALSE,
              log |-> <<"Warning: Grocery item '" \o grocery_list[Least(bad_items)].ingredient
                        \o "' not found in available ingredients">>]
        ELSE [valid |-> TRUE, log |-> << >>]

\* _validate_meal_plan that accepts every plan
_validate_meal_plan_lenient(meal_plan, ingredients) == [valid |-> TRUE, log |-> << >>]

\* MealPlanner._validate_meal_plan(meal_plan, ingredients, activity_log): the
\* truth value returned and the entries appended to activity_log
_validate_meal_plan(meal_plan, ingredients) ==
    LET grocery_list == IF Has(meal_plan, "grocery_list") THEN meal_plan["grocery_list"] ELSE << >>
        plan_days == IF Has(meal_plan, "days") THEN meal_plan["days"] ELSE << >>
        missing(name) == ~IsAvailable(name, ingredients)
        bad_items == {i \in 1..Len(grocery_list) : missing(grocery_list[i].ingredient)}
        meal_names(meals) == MealNames(meals, meals_items(meals))
        recipe_names[d \in 0..Len(plan_days)] ==
            IF d = 0 THEN << >>
            ELSE recipe_names[d - 1] \o
                 meal_names(IF Has(plan_days[d], "meals") THEN plan_days[d].meals ELSE << >>)
        names == recipe_names[Len(plan_days)]
        bad_names == {i \in 1..Len(names) : missing(names[i])}
    IN  IF bad_items # {}
        THEN [valid |-> FALSE,
              log |-> <<"Warning: Grocery item '" \o grocery_list[Least(bad_items)].ingredient
                        \o "' not found in available ingredients">>]
        ELSE IF bad_names # {}
        THEN [valid |-> FALSE,
              log |-> <<"Warning: Recipe ingredient '" \o names[Least(bad_names)]
                        \o "' not available">>]
        ELSE [valid |-> TRUE, log |-> << >>]

\* -------------------------------------------------------- collaborators

\* research_client.research_ingredients(location, budget): the catalogs it can
\* return (never an empty one: it falls back to the mock catalog)
research_ingredients(location, budget) == Catalogs

\* a plan the generation API can return for a catalog: one day of meals made
\* of the catalog's first ingredient, with `extra` added to the grocery list
\* and `odd` to the dinner
GeneratedPlan(user_data, ingredients, extra, odd) ==
    LET first == ingredients[1]
        meal(name, more) ==
            [name |-> name,
             ingredients |-> <<Ing(first.name, "1 cup")>> \o more,
             recipe |-> "Cook and serve.", cooking_time |-> "15 minutes",
             difficulty |-> "easy", cost |-> [num |-> first.price, den |-> 1]]
    IN  [grocery_list |->
            <<[ingredient |-> first.name, quantity |-> "3", unit |-> first.unit,
               estimated_cost |-> first.price, category |-> first.category]>> \o extra,
         total_grocery_cost |-> first.price,
         days |-> <<[day |-> "Monday",
                     meals |-> [breakfast |-> meal("Porridge", << >>),
                                lunch |-> meal("Bowl", << >>),
                                dinner |-> meal("Stew", odd)]]>>,
         weekly_summary |-> [total_cost |-> 3 * first.price,
                             serves |-> user_data["people"],
                             location |-> user_data["location"],
                             budget_utilization |-> "10%"],
         cooking_tips |-> <<"tip 1", "tip 2", "tip 3">>,
         storage_advice |-> <<"advice 1", "advice 2">>]

\* the outputs of a chat-completion call of generate_meal_plan that are told apart
GenerationCases ==
    {"raise", "no_json", "bad_json", "valid", "unformattable", "bad_grocery", "bad_recipe"}

\* what one chat-completion call of generate_meal_plan produces in each case:
\*   raise     the call raises
\*   no_json   a text without a {...} part
\*   bad_json  a {...} part that json.loads rejects
\*   plan      a JSON object; summary_ok tells whether weekly_summary.total_cost
\*             is a number, which the final message's "{total_cost:.2f}" needs
GenerationOutput(case, user_data, ingredients) ==
    LET saffron == <<[ingredient |-> "Saffron", quantity |-> "1", unit |-> "g",
                      estimated_cost |-> 900, category |-> "other"]>>
        truffle == <<Ing("Truffle", "1")>>
    IN  CASE case \in {"raise", "no_json", "bad_json"} ->
               [kind |-> case, plan |-> << >>, summary_ok |-> TRUE]
          [] case = "valid" ->
               [kind |-> "plan", summary_ok |-> TRUE,
                plan |-> GeneratedPlan(user_data, ingredients, << >>, << >>)]
          [] case = "unformattable" ->
               [kind |-> "plan", summary_ok |-> FALSE,
                plan |-> GeneratedPlan(user_data, ingredients, << >>, << >>)]
          [] case = "bad_grocery" ->
               [kind |-> "plan", summary_ok |-> TRUE,
                plan |-> GeneratedPlan(user_data, ingredients, saffron, << >>)]
          [] case = "bad_recipe" ->
               [kind |-> "plan", summary_ok |-> TRUE,
                plan |-> GeneratedPlan(user_data, ingredients, << >>, truffle)]

\* ----------------------------------------------------------------- app.py

\* str(x) for a float amount kept in cents
FormatFloat(cents) ==
    FormatInt(cents \div 100) \o "." \o
    (IF cents % 10 = 0 THEN FormatInt((cents % 100) \div 10)
     ELSE FormatInt((cents % 100) \div 10) \o FormatInt(cents % 10))

RECURSIVE LogAll_through_planner(_, _, _)
\* a MealPlanner that logs through the session id it was last bound to
LogAll_through_planner(store, session_id, entries) ==
    IF entries = << >> THEN store
    ELSE LogAll_through_planner(
             add_activity_log(store,
                              IF "session_id" \in DOMAIN call /\ call.session_id # ""
                              THEN call.session_id ELSE session_id,
                              Head(entries)),
             session_id, Tail(entries))

RECURSIVE LogAll(_, _, _)
\* add_activity_log / activity_log.append for each of the entries, in order
LogAll(store, session_id, entries) ==
    IF entries = << >> THEN store
    ELSE LogAll(add_activity_log(store, session_id, Head(entries)), session_id, Tail(entries))

\* the user messages received so far, over all sessions
Turns(store) ==
    LET heard(sid) == Cardinality({i \in 1..Len(store[sid].conversation_history) :
                                      store[sid].conversation_history[i].role = "user"})
        count[S \in SUBSET DOMAIN store] ==
            IF S = {} THEN 0
            ELSE LET sid == CHOOSE x \in S : TRUE IN heard(sid) + count[S \ {sid}]
    IN  count[DOMAIN store]

\* chat() ending a planning run with the state set back to welcome
FinishInWelcome(store, session_id, resp, meal_plan, formats) ==
    [sessions |->
        [store EXCEPT ![session_id] =
            Put(Put([@ EXCEPT !.status = "complete", !.state = "welcome"],
                    "meal_plan", meal_plan),
                "meal_plan_generated", TRUE)],
     response |-> Put(resp, "meal_plan", meal_plan)]

\* the except branch of chat() that leaves the status as the run had set it
except_branch_status_kept(store, session_id, resp, error) ==
    LET failed == add_activity_log(store, session_id, "Warning: Error: " \o error)
    IN  [sessions |-> failed,
         response |->
            Put(Put(Put(Put(resp, "activity_log", failed[session_id].activity_log),
                        "error", error),
                    "status", "error"),
                "message", "I encountered an error while creating your meal plan. "
                           \o "Please try again or contact support. Error: " \o error)]

\* the except branch of chat() with the conversation reset as well
except_branch_resetting(store, session_id, resp, error) ==
    LET failed == add_activity_log(store, session_id, "Warning: Error: " \o error)
    IN  [sessions |-> [failed EXCEPT ![session_id].status = "error",
                                     ![session_id].state = "welcome",
                                     ![session_id].user_data = << >>],
         response |->
            Put(Put(Put(Put(resp, "activity_log", failed[session_id].activity_log),
                        "error", error),
                    "status", "error"),
                "message", "I encountered an error while creating your meal plan. "
                           \o "Please try again or contact support. Error: " \o error)]

\* the except branch of chat() with the state tag set to error as well
except_branch_error_state(store, session_id, resp, error) ==
    LET failed == add_activity_log(store, session_id, "Warning: Error: " \o error)
    IN  [sessions |-> [failed EXCEPT ![session_id].status = "error",
                                     ![session_id].state = "error"],
         response |->
            Put(Put(Put(Put(resp, "activity_log", failed[session_id].activity_log),
                        "error", error),
                    "status", "error"),
                "message", "I encountered an error while creating your meal plan. "
                           \o "Please try again or contact support. Error: " \o error)]

\* chat(), lines 132-139: an exception of the planning run whose str() is
\* `error` is caught; self.sessions and the response after it
except_branch(store, session_id, resp, error) ==
    LET failed == add_activity_log(store, session_id, "Warning: Error: " \o error)
    IN  [sessions |-> [failed EXCEPT ![session_id].status = "error"],
         response |->
            Put(Put(Put(Put(resp, "activity_log", failed[session_id].activity_log),
                        "error", error),
                    "status", "error"),
                "message", "I encountered an error while creating your meal plan. "
                           \o "Please try again or contact support. Error: " \o error)]

\* chat() with the plan attached to the session before the final message is
\* formatted: it stays attached when formatting raises
FinishAttachingFirst(store, session_id, resp, meal_plan, formats) ==
    LET session == store[session_id]
        user_data == session.user_data
        weekly_summary == meal_plan.weekly_summary
        final_message ==
            "Here's your personalized affordable meal plan! Total Cost: $"
            \o FormatMoney(weekly_summary.total_cost) \o " CAD (under your $"
            \o FormatFloat(user_data["budget"]) \o " CAD budget - "
            \o weekly_summary.budget_utilization \o " utilized) Serves: "
            \o FormatInt(user_data["people"]) \o " people Location: " \o user_data["location"]
        error == "Unknown format code 'f' for object of type 'str'"
    IN  IF formats
        THEN [sessions |->
                 [store EXCEPT ![session_id] =
                     Put(Put([session EXCEPT !.status = "complete", !.state = "complete"],
                             "meal_plan", meal_plan),
                         "meal_plan_generated", TRUE)],
              response |->
                 Put(Put(Put(resp, "meal_plan", meal_plan),
                         "activity_log", session.activity_log),
                     "message", final_message)]
        ELSE except_branch([store EXCEPT ![session_id] = Put(session, "meal_plan", meal_plan)],
                           session_id, resp, error)

\* chat(), lines 104-130 when the final message can be formatted and lines
\* 132-139 when formatting it raises: self.sessions and the response after it
Finish(store, session_id, resp, meal_plan, formats) ==
    LET session == store[session_id]
        user_data == session.user_data
        weekly_summary == meal_plan.weekly_summary
        final_message ==
            "Here's your personalized affordable meal plan! Total Cost: $"
            \o FormatMoney(weekly_summary.total_cost) \o " CAD (under your $"
            \o FormatFloat(user_data["budget"]) \o " CAD budget - "
            \o weekly_summary.budget_utilization \o " utilized) Serves: "
            \o FormatInt(user_data["people"]) \o " people Location: " \o user_data["location"]
        error == "Unknown format code 'f' for object of type 'str'"
    IN  IF formats
        THEN [sessions |->
                 [store EXCEPT ![session_id] =
                     Put(Put([session EXCEPT !.status = "complete", !.state = "complete"],
                             "meal_plan", meal_plan),
                         "meal_plan_generated", TRUE)],
              response |->
                 Put(Put(Put(resp, "meal_plan", meal_plan),
                         "activity_log", session.activity_log),
                     "message", final_message)]
        ELSE except_branch(store, session_id, resp, error)

\* POST /api/chat, lines 61-84, on the session store store_now: the message is
\* processed and, when a plan is due, the planning run starts and reaches the
\* research call; store_next is the store the handler leaves
chat(store_now, store_next, session_id, user_message, gpt) ==
    /\ pc = "idle"
    /\ \E pm \in {process_message(get_session(store_now, session_id), api_key,
                                  session_id, user_message, gpt)} :
           LET store == pm.sessions
               location == IF Has(store[session_id].user_data, "location")
                           THEN store[session_id].user_data["location"] ELSE ""
           IN  /\ req' = [session_id |-> session_id, message |-> user_message]
               /\ response' = pm.response
               /\ IF should_generate_meal_plan(store, session_id)
                  THEN /\ store_next = add_activity_log(
                                           [store EXCEPT ![session_id].status = "processing"],
                                           session_id,
                                           "Researching affordable food prices in "
                                           \o location \o "...")
                       /\ pc' = "research"
                  ELSE /\ store_next = store
                       /\ pc' = "idle"
    /\ UNCHANGED <<api_key, work, memo, call>>

\* POST /api/chat on self.sessions, for a client that sends a bounded number
\* of messages
Chat(session_id, user_message, gpt) ==
    /\ Turns(sessions) < MaxTurns
    /\ chat(sessions, sessions', session_id, user_message, gpt)

\* FallBack that does not announce the fallback in the activity log
FallBackSilent(store, session_id, entry, user_data, ingredients) ==
    LET finish(fallback) ==
            Finish(LogAll(store, session_id, fallback.log),
                   session_id, response, fallback.plan, TRUE)
    IN  finish(_create_fallback_meal_plan(user_data, ingredients))

\* generate_meal_plan, lines 17-19 and 143-145: the fallback plan is made and
\* announced with `entry`, and chat() ends the run with it
FallBack(store, session_id, entry, user_data, ingredients) ==
    LET finish(fallback) ==
            Finish(LogAll(store, session_id, <<entry>> \o fallback.log),
                   session_id, response, fallback.plan, TRUE)
    IN  finish(_create_fallback_meal_plan(user_data, ingredients))

\* the attributes of the one MealPlanner of the process after chat() has
\* bound it to the request it serves (app.py 94-95); planner is the record
\* that holds them where a specification keeps them
bind_planner(planner, session_id) ==
    IF "session_id" \in DOMAIN planner
    THEN [planner EXCEPT !.session_id = session_id] ELSE planner

\* chat(), lines 86-102, and generate_meal_plan up to its first generation
\* call, on the session store store_now: the research call returns
\* `ingredients`; store_next is the store the step leaves
ResearchOn(store_now, store_next, ingredients) ==
    /\ pc = "research"
    /\ LET session_id == req.session_id
           user_data == store_now[session_id].user_data
       IN  /\ call' = bind_planner(call, session_id)
           /\ ingredients \in research_ingredients(
                                  IF Has(user_data, "location") THEN user_data["location"] ELSE "",
                                  IF Has(user_data, "budget") THEN user_data["budget"] ELSE 0)
           /\ \E found \in {LogAll(store_now, session_id,
                               << "Found " \o FormatInt(Len(ingredients))
                                      \o " affordable ingredients at local stores",
                                  "Analyzing budget constraints...",
                                  "Creating your personalized grocery list and meal plan..." >>)} :
                  IF ~api_key
                  THEN \E done \in {FallBack(found, session_id,
                                             "Using fallback meal plan (no API key)",
                                             user_data, ingredients)} :
                           /\ store_next = done.sessions
                           /\ response' = done.response
                           /\ pc' = "idle"
                           /\ work' = << >>
                  ELSE /\ store_next = add_activity_log(found, session_id,
                                                        "Generating meal options...")
                       /\ response' = response
                       /\ pc' = "generate"
                       /\ work' = [ingredients |-> ingredients, attempt |-> 1]
    /\ UNCHANGED <<api_key, req, memo>>

\* the research step on self.sessions
Research(ingredients) == ResearchOn(sessions, sessions', ingredients)

\* generate_meal_plan, lines 97-141: the entries one pass of the retry loop
\* appends to the activity log, from what the generation call produced and
\* what _validate_meal_plan returned
AttemptLog(output, checked, last) ==
    CASE output.kind = "raise" ->
           <<"Warning: Error generating meal plan: connection error">>
      [] output.kind = "no_json" -> << >>
      [] output.kind = "bad_json" ->
           <<"Warning: Error parsing meal plan: Expecting value">>
      [] output.kind = "plan" ->
           <<"Verifying recipe accuracy and ingredient availability...">>
           \o checked.log
           \o (IF checked.valid THEN <<"Meal plan verified and ready!">>
               ELSE IF ~last
               THEN <<"Re-generating grocery list - improving accuracy...">>
               ELSE << >>)

\* generate_meal_plan, lines 97-145, for one pass of the retry loop, and the
\* rest of chat() when the loop ends, on the session store store_now: the
\* generation call produces the output of `case`; store_next is the store the
\* step leaves
GenerateOn(store_now, store_next, case) ==
    /\ pc = "generate"
    /\ LET session_id == req.session_id
           user_data == store_now[session_id].user_data
           ingredients == work.ingredients
           last == work.attempt >= max_retries
       IN  \E output \in {GenerationOutput(case, user_data, ingredients)} :
           \E checked \in {_validate_meal_plan(output.plan, ingredients)} :
           \E logged \in {LogAll(store_now, session_id, AttemptLog(output, checked, last))} :
               IF output.kind = "plan" /\ checked.valid
               THEN \E done \in {Finish(logged, session_id, response,
                                        output.plan, output.summary_ok)} :
                        /\ store_next = done.sessions
                        /\ response' = done.response
                        /\ pc' = "idle"
                        /\ work' = << >>
               ELSE IF last
               THEN \E done \in {FallBack(logged, session_id, "Using fallback meal plan",
                                          user_data, ingredients)} :
                        /\ store_next = done.sessions
                        /\ response' = done.response
                        /\ pc' = "idle"
                        /\ work' = << >>
               ELSE /\ store_next = add_activity_log(logged, session_id,
                                                     "Generating meal options...")
                    /\ response' = response
                    /\ pc' = "generate"
                    /\ work' = [work EXCEPT !.attempt = @ + 1]
    /\ UNCHANGED <<api_key, req, memo, call>>

\* the generation step on self.sessions
Generate(case) == GenerateOn(sessions, sessions', case)

\* GET /api/activity_log: the dict returned for a session
get_activity_log(store, session_id) ==
    LET session == get_session(store, session_id)[session_id]
    IN  [activity_log |-> session.activity_log, status |-> session.status]

\* GET /api/activity_log for session_id: get_session creates the session
Poll(session_id) ==
    /\ sessions' = get_session(sessions, session_id)
    /\ UNCHANGED <<api_key, pc, req, response, work, memo, call>>

RECURSIVE PoolsAll(_)
\* the function that maps each catalog of the set to its FilteredPools
PoolsAll(catalogs) ==
    IF catalogs = {} THEN << >>
    ELSE LET ingredients == CHOOSE x \in catalogs : TRUE
         IN  (ingredients :> FilteredPools(ingredients)) @@ PoolsAll(catalogs \ {ingredients})

RECURSIVE AvailableIn(_, _)
\* the function that maps each catalog of the set to AvailableAll(names, catalog)
AvailableIn(names, catalogs) ==
    IF catalogs = {} THEN << >>
    ELSE LET ingredients == CHOOSE x \in catalogs : TRUE
         IN  (ingredients :> AvailableAll(names, ingredients))
             @@ AvailableIn(names, catalogs \ {ingredients})

\* the tables of memo for the texts, the catalogs and the ingredient names
\* that a specification handles
Memo(texts, catalogs, names) ==
    [scan |-> ScanAll(texts),
     pools |-> PoolsAll(catalogs),
     available |-> AvailableIn(names, catalogs)]

\* no call of a MealPlanner method on its own
NoCall == [fn |-> "none"]

Init ==
    /\ sessions = << >>
    /\ api_key \in BOOLEAN
    /\ pc = "idle"
    /\ req = << >>
    /\ response = << >>
    /\ work = << >>
    /\ memo = Memo(Messages, Catalogs, KnownNames)
    /\ call = NoCall

\* the outputs of the generation call that Spec explores: one that is
\* rejected, one that is accepted, one that is accepted and cannot be reported
PlanOutputs == {"no_json", "valid", "unformattable"}

\* one client chats, as session "default", and the chat-completion call of
\* the ChatManager answers; every session id polls
Next ==
    \/ \E user_message \in Messages : Chat("default", user_message, "text")
    \/ \E ingredients \in Catalogs : Research(ingredients)
    \/ \E case \in PlanOutputs : Generate(case)
    \/ \E session_id \in SessionIds : Poll(session_id)

Spec == Init /\ [][Next]_vars

\* ------------------------------------------------------------ properties

\* the result of process_message for a message sent to session_id now
Handled(session_id, user_message) ==
    process_message(sessions, api_key, session_id, user_message, "text")

\* the session of session_id as get_session would return it now
SessionOf(store, session_id) == get_session(store, session_id)[session_id]

\* the three required slots are in user_data
RequiredPresent(user_data) == {"people", "budget", "location"} \subseteq DOMAIN user_data

\* the number of history entries of a session, 0 when there is no such session
HistoryLen(store, session_id) ==
    IF session_id \in DOMAIN store THEN Len(store[session_id].conversation_history) ELSE 0

\* this step is a chat turn of session_id: process_message has recorded a message
ChatStep(session_id) ==
    pc = "idle" /\ HistoryLen(sessions', session_id) > HistoryLen(sessions, session_id)

\* C1: a meal plan is attached to a session at most once: once a session has
\* a plan, should_generate_meal_plan is false for it before and after every
\* step, no planning run is in flight for it after a chat turn, and the plan
\* stays in the session unmodified.
C1_PlanAttachedOnce ==
    [][\A session_id \in DOMAIN sessions :
          Has(sessions[session_id], "meal_plan") =>
             /\ ~should_generate_meal_plan(sessions, session_id)
             /\ ~should_generate_meal_plan(sessions', session_id)
             /\ Has(sessions'[session_id], "meal_plan")
             /\ sessions'[session_id]["meal_plan"] = sessions[session_id]["meal_plan"]
             /\ (ChatStep(session_id) => pc' = "idle")]_vars

\* a session has a plan and has answered a later chat turn
C1_Witness ==
    /\ pc = "idle"
    /\ "default" \in DOMAIN sessions
    /\ Has(sessions["default"], "meal_plan")
    /\ req = [session_id |-> "default", message |-> "Hello"]
    /\ ~Has(response, "meal_plan")

\* the condition C2 states for a session
PlanDue(session) ==
    /\ session.state = "processing"
    /\ RequiredPresent(session.user_data)
    /\ session.user_data["people"] # 0
    /\ session.user_data["budget"] # 0
    /\ session.user_data["location"] # ""
    /\ ("meal_plan_generated" \notin DOMAIN session \/ session["meal_plan_generated"] = FALSE)

\* C2: should_generate_meal_plan is true exactly when the session's state is
\* processing, people, budget and location are all present and truthy, and
\* meal_plan_generated is absent or false; a chat turn starts a planning run
\* exactly when that holds after process_message.
C2_ShouldGenerate ==
    [][/\ \A session_id \in SessionIds :
              should_generate_meal_plan(sessions, session_id)
                  <=> PlanDue(SessionOf(sessions, session_id))
       /\ \A session_id \in SessionIds :
              ChatStep(session_id) =>
                  (pc' = "research" <=> PlanDue(sessions'[session_id]))
      ]_vars

\* a chat turn has found the plan due and started the planning run
C2_Witness ==
    /\ pc = "research"
    /\ should_generate_meal_plan(sessions, req.session_id)
    /\ sessions[req.session_id].status = "processing"

\* the state changes C3 allows
AllowedChanges ==
    { <<"welcome", "collecting_info">>,
      <<"collecting_info", "confirm">>,
      <<"confirm", "processing">>,
      <<"processing", "complete">>,
      <<"confirm", "collecting_info">> }

\* C3: the state of a session changes only Welcome -> CollectingInfo,
\* CollectingInfo -> Confirm, Confirm -> Processing, Processing -> Complete and
\* Confirm -> CollectingInfo; the last one happens on a negative answer and
\* empties the slots.
C3_StateChanges ==
    [][\A session_id \in DOMAIN sessions :
          LET before == sessions[session_id].state
              after == sessions'[session_id].state
          IN  before # after =>
                 /\ <<before, after>> \in AllowedChanges
                 /\ (before = "confirm" /\ after = "collecting_info") =>
                        /\ Scanned(req'.message).text_lower
                               \in {"no", "n", "incorrect", "wrong", "change"}
                        /\ sessions'[session_id].user_data = << >>]_vars

\* a session that was in Confirm with its slots filled is back in
\* CollectingInfo, with no slots, after a negative answer
C3_Witness ==
    /\ pc = "idle"
    /\ req = [session_id |-> "default", message |-> "no"]
    /\ "reset" \in DOMAIN response
    /\ sessions["default"].state = "collecting_info"
    /\ sessions["default"].user_data = << >>
    /\ \E i \in 1..Len(sessions["default"].conversation_history) :
           sessions["default"].conversation_history[i].content
               = "2 people in Ottawa, budget $50, vegan"

\* C4: in CollectingInfo, process_message runs the extractor on the message and
\* the stored slots and stores the result; the next state is Confirm if and
\* only if people, budget and location are all present in the result, and
\* CollectingInfo otherwise.
C4_Collecting ==
    \A session_id \in DOMAIN sessions, user_message \in Messages :
        sessions[session_id].state = "collecting_info" =>
            LET after == Handled(session_id, user_message).sessions[session_id]
                result == _extract_user_data(user_message, sessions[session_id].user_data)
            IN  /\ after.user_data = result
                /\ after.state = IF RequiredPresent(result) THEN "confirm"
                                 ELSE "collecting_info"

\* a message that supplies every slot has moved a session that had only a
\* part of them to Confirm
C4_Witness ==
    /\ "default" \in DOMAIN sessions
    /\ sessions["default"].state = "confirm"
    /\ req = [session_id |-> "default",
              message |-> "2 people in Ottawa, budget $50, vegan"]
    /\ \E i \in 1..Len(sessions["default"].conversation_history) :
           sessions["default"].conversation_history[i].content = "3 people"
    /\ sessions["default"].user_data["people"] = 2

\* C5: in Confirm, an affirmative message (whatever its case) moves the session
\* to Processing, appends exactly one log entry, the 'preferences collected'
\* one, leaves the slots as they are and returns a reply flagged
\* ready_for_meal_plan; should_generate_meal_plan is true right after it.
C5_Affirmative ==
    \A session_id \in DOMAIN sessions, user_message \in Messages :
        (/\ sessions[session_id].state = "confirm"
         /\ Scanned(user_message).text_lower
                \in {"yes", "y", "correct", "yeah", "sure", "ok", "okay", "confirmed"}) =>
            LET handled == Handled(session_id, user_message)
                after == handled.sessions[session_id]
            IN  /\ after.state = "processing"
                /\ after.activity_log =
                       Append(sessions[session_id].activity_log,
                              "Collecting user preferences... done")
                /\ after.user_data = sessions[session_id].user_data
                /\ "ready_for_meal_plan" \in DOMAIN handled.response
                /\ handled.response["ready_for_meal_plan"] = TRUE
                /\ should_generate_meal_plan(handled.sessions, session_id)

\* "Yes" has been answered to the confirmation
C5_Witness ==
    /\ pc = "research"
    /\ req = [session_id |-> "default", message |-> "Yes"]
    /\ "ready_for_meal_plan" \in DOMAIN response
    /\ sessions["default"].activity_log[1] = "Collecting user preferences... done"

\* C6: in Confirm, a negative message moves the session to CollectingInfo and
\* empties the slots; a message sent next is extracted as in a fresh session,
\* so one that supplies every slot reaches Confirm with its own values only.
C6_Negative ==
    \A session_id \in DOMAIN sessions, user_message \in Messages :
        (/\ sessions[session_id].state = "confirm"
         /\ Scanned(user_message).text_lower \in {"no", "n", "incorrect", "wrong", "change"}) =>
            LET handled == Handled(session_id, user_message)
                after == handled.sessions[session_id]
            IN  /\ after.state = "collecting_info"
                /\ after.user_data = << >>
                /\ \A next_message \in Messages :
                       LET later == process_message(handled.sessions, api_key, session_id,
                                                    next_message, "text").sessions[session_id]
                           fresh == _extract_user_data(next_message, << >>)
                       IN  /\ later.user_data = fresh
                           /\ RequiredPresent(fresh) => later.state = "confirm"

\* after a vegan household of 2 in Ottawa was rejected with "no", the next
\* message has brought the session to Confirm with its own values only
C6_Witness ==
    /\ "default" \in DOMAIN sessions
    /\ sessions["default"].state = "confirm"
    /\ Len(sessions["default"].conversation_history) >= 3
    /\ LET history == sessions["default"].conversation_history
           n == Len(history)
       IN  /\ history[n].content = "4 people in Toronto with a budget of $100, no restrictions"
           /\ history[n - 1].content = reset_message
           /\ \E i \in 1..n : history[i].content = "2 people in Ottawa, budget $50, vegan"
    /\ sessions["default"].user_data["people"] = 4
    /\ sessions["default"].user_data["location"] = "Toronto"
    /\ sessions["default"].user_data["dietary_restrictions"] = << >>

\* C7: in Confirm, a message that is neither affirmative nor negative, even one
\* that holds slot values, leaves the state, the slots and the activity log
\* as they are.
C7_Unrecognised ==
    \A session_id \in DOMAIN sessions, user_message \in Messages :
        (/\ sessions[session_id].state = "confirm"
         /\ Scanned(user_message).text_lower
                \notin {"yes", "y", "correct", "yeah", "sure", "ok", "okay", "confirmed",
                        "no", "n", "incorrect", "wrong", "change"}) =>
            LET after == Handled(session_id, user_message).sessions[session_id]
            IN  /\ after.state = "confirm"
                /\ after.user_data = sessions[session_id].user_data
                /\ after.activity_log = sessions[session_id].activity_log

\* a message with other slot values was sent in Confirm and the slots of the
\* first one are still there
C7_Witness ==
    /\ "default" \in DOMAIN sessions
    /\ sessions["default"].state = "confirm"
    /\ req = [session_id |-> "default", message |-> "3 people"]
    /\ response["message"] = clarify_message
    /\ sessions["default"].user_data["people"] # 3

\* C8: in Welcome, the session moves to CollectingInfo if and only if the whole
\* message, lower-cased, is one of get started, start, hello, hi, begin; any
\* other message gets the free-form reply and leaves state and slots as they are.
C8_Welcome ==
    \A session_id \in SessionIds, user_message \in Messages :
        SessionOf(sessions, session_id).state = "welcome" =>
            LET handled == Handled(session_id, user_message)
                after == handled.sessions[session_id]
                greeting == Scanned(user_message).text_lower
                                \in {"get started", "start", "hello", "hi", "begin"}
            IN  /\ after.state = IF greeting THEN "collecting_info" ELSE "welcome"
                /\ after.user_data = SessionOf(sessions, session_id).user_data
                /\ ~greeting =>
                       handled.response["message"] = IF api_key THEN gpt_text ELSE help_message

\* "Yes" was sent in Welcome and left the session there, then "Hello" moved it on
C8_Witness ==
    /\ "default" \in DOMAIN sessions
    /\ sessions["default"].state = "collecting_info"
    /\ Len(sessions["default"].conversation_history) = 4
    /\ sessions["default"].conversation_history[1].content = "Yes"
    /\ sessions["default"].conversation_history[3].content = "Hello"

\* C9: in Processing, Complete or any other state, process_message returns the
\* free-form reply and leaves the state, the slots and the activity log as
\* they are: nothing is extracted from the message.
C9_FreeForm ==
    \A session_id \in DOMAIN sessions, user_message \in Messages :
        sessions[session_id].state \notin {"welcome", "collecting_info", "confirm"} =>
            LET handled == Handled(session_id, user_message)
                after == handled.sessions[session_id]
            IN  /\ after.state = sessions[session_id].state
                /\ after.user_data = sessions[session_id].user_data
                /\ after.activity_log = sessions[session_id].activity_log
                /\ handled.response["message"] = IF api_key THEN gpt_text ELSE help_message
                /\ handled.response["state"] = sessions[session_id].state

\* a message with slot values was sent to a session in Complete, and the slots
\* are still the confirmed ones
C9_Witness ==
    /\ pc = "idle"
    /\ "default" \in DOMAIN sessions
    /\ sessions["default"].state = "complete"
    /\ req = [session_id |-> "default", message |-> "3 people"]
    /\ response["state"] = "complete"
    /\ sessions["default"].user_data["people"] # 3

\* C10: get_session is idempotent: for an unknown id it adds a session in
\* state welcome and status idle with empty slots, history and log, and leaves
\* the other sessions alone; for a known id it changes nothing; calling it
\* again changes nothing.
C10_GetSession ==
    \A session_id \in SessionIds :
        LET got == get_session(sessions, session_id)
        IN  /\ session_id \in DOMAIN sessions => got = sessions
            /\ session_id \notin DOMAIN sessions =>
                   /\ DOMAIN got = DOMAIN sessions \cup {session_id}
                   /\ got[session_id] = [state |-> "welcome", status |-> "idle",
                                         user_data |-> << >>, conversation_history |-> << >>,
                                         activity_log |-> << >>]
                   /\ \A other \in DOMAIN sessions : got[other] = sessions[other]
            /\ get_session(got, session_id) = got

\* a poll has created the session "guest", and polls have left alone the
\* session "default", which is past Welcome
C10_Witness ==
    /\ DOMAIN sessions = {"default", "guest"}
    /\ sessions["guest"].state = "welcome"
    /\ sessions["guest"].conversation_history = << >>
    /\ sessions["default"].state = "confirm"

\* ------------------------------------------------- properties: activity log

\* a is a prefix of b
IsPrefix(a, b) == Len(a) <= Len(b) /\ SubSeq(b, 1, Len(a)) = a

\* the activity log a poll of session_id returns
LogOf(store, session_id) == get_activity_log(store, session_id).activity_log

\* C11: the activity log of a session is append-only and keeps its order:
\* add_activity_log puts the entry at the end, and over every step of the
\* program (a chat turn in any state, a reset, a step of a planning run that
\* succeeds, falls back or raises, a poll) the log a poll returned before the
\* step is a prefix of the log a poll returns after it.
C11_LogAppendOnly ==
    [][\A session_id \in SessionIds :
          /\ LogOf(add_activity_log(sessions, session_id, "entry"), session_id)
                 = Append(LogOf(sessions, session_id), "entry")
          /\ IsPrefix(LogOf(sessions, session_id), LogOf(sessions', session_id))
      ]_vars

\* a planning run has raised after the log received entries of the state
\* machine, of chat() and of the planner, in that order
C11_Witness ==
    /\ pc = "idle"
    /\ "default" \in DOMAIN sessions
    /\ sessions["default"].status = "error"
    /\ Len(sessions["default"].activity_log) > 6
    /\ sessions["default"].activity_log[1] = "Collecting user preferences... done"
    /\ sessions["default"].activity_log[2] = "Researching affordable food prices in Ottawa..."
    /\ sessions["default"].activity_log[6] = "Generating meal options..."

\* ------------------------------------------------ the planning pipeline

\* the messages of a conversation that reaches the planning run
PlanMessages == {"Hello", "2 people in Ottawa, budget $50, vegan", "Yes"}

\* the outputs of a generation call that PlanSpec explores: every way an
\* attempt can fail, and a plan that passes the validator
PlanCases == {"raise", "no_json", "bad_json", "valid", "bad_grocery", "bad_recipe"}

\* session "default" chats its way to a planning run, in which the research
\* call returns either catalog and each generation call produces any of the
\* outputs of PlanCases
NextPlan ==
    \/ \E user_message \in PlanMessages : Chat("default", user_message, "text")
    \/ \E ingredients \in Catalogs : Research(ingredients)
    \/ \E case \in PlanCases : Generate(case)

\* the request in flight takes its next step.  Under NextPlan a step that
\* changes pc or work is a Research or a Generate step, one of them is enabled
\* whenever a planning run is on, and each of them changes pc or work.
PlanStep ==
    /\ pc \in {"research", "generate"}
    /\ pc' \in {"idle", "generate"}
    /\ work' \in {<< >>} \cup {[ingredients |-> ingredients, attempt |-> attempt] :
                                   ingredients \in Catalogs, attempt \in 1..max_retries}

\* chat() is one sequential function whose blocking calls return or raise: a
\* planning run that is on goes on
PlanSpec ==
    /\ Init
    /\ [][NextPlan]_vars
    /\ WF_<<pc, work>>(PlanStep)

\* ------------------------------------------- properties: planning pipeline

\* how many entries of the log are `entry`
Count(log, entry) == Cardinality({i \in 1..Len(log) : log[i] = entry})

\* the entry generate_meal_plan logs when an attempt starts
GeneratingEntry == "Generating meal options..."

\* the ingredient names a plan refers to: the ingredient of every grocery-list
\* entry and the name of every recipe ingredient of every meal of every day
NamesOf(plan) ==
    {plan.grocery_list[i].ingredient : i \in 1..Len(plan.grocery_list)}
    \cup UNION {UNION {{plan.days[d].meals[t].ingredients[j].name :
                           j \in 1..Len(plan.days[d].meals[t].ingredients)} :
                       t \in DOMAIN plan.days[d].meals} :
                d \in 1..Len(plan.days)}

\* the plan satisfies the Plan Validator against the catalog: each name it
\* refers to matches a catalog name
Satisfies(plan, ingredients) == \A name \in NamesOf(plan) : IsAvailable(name, ingredients)

\* the session of the request in flight, before and after the step
Running == sessions[req.session_id]

RunningNext == sessions'[req.session_id]

\* what generate_meal_plan's generation call gave in `case`, and whether it
\* is a plan that parses and validates
Parsed(case) == GenerationOutput(case, Running.user_data, work.ingredients)

Good(case) == Parsed(case).kind = "plan" /\ Satisfies(Parsed(case).plan, work.ingredients)

\* the entries of GeneratingEntry a step adds to the log of the session
Started == Count(RunningNext.activity_log, GeneratingEntry)
           - Count(Running.activity_log, GeneratingEntry)

\* C12: with the generation capability, generate_meal_plan makes at most 3
\* attempts and logs one "generating" entry per attempt; it returns at the
\* first attempt whose output parses and validates, with that plan; it starts
\* another attempt after a failure (no JSON, bad JSON, validation failure,
\* exception) while fewer than 3 were made; after the third failure it returns
\* the fallback plan; and a run that has started attempts always ends.
C12_Retries ==
    /\ [][/\ \A ingredients \in Catalogs :
                Research(ingredients) /\ api_key =>
                    pc' = "generate" /\ work'.attempt = 1 /\ Started = 1
          /\ \A case \in GenerationCases :
                Generate(case) =>
                    /\ work.attempt \in 1..3
                    /\ Good(case) =>
                          /\ pc' = "idle" /\ Started = 0
                          /\ RunningNext.meal_plan = Parsed(case).plan
                    /\ ~Good(case) /\ work.attempt < 3 =>
                          /\ pc' = "generate" /\ Started = 1
                          /\ work'.attempt = work.attempt + 1
                    /\ ~Good(case) /\ work.attempt = 3 =>
                          /\ pc' = "idle" /\ Started = 0
                          /\ RunningNext.meal_plan =
                                 _create_fallback_meal_plan(Running.user_data,
                                                            work.ingredients).plan
         ]_vars
    /\ (pc = "generate") ~> (pc = "idle" /\ req # << >> /\ Has(Running, "meal_plan"))

\* the third attempt has failed validation after two attempts that failed
\* otherwise, and the run has ended with a plan
C12_Witness ==
    /\ api_key
    /\ pc = "idle"
    /\ "default" \in DOMAIN sessions
    /\ Has(sessions["default"], "meal_plan")
    /\ Count(sessions["default"].activity_log, GeneratingEntry) = 3
    /\ Count(sessions["default"].activity_log,
             "Warning: Error generating meal plan: connection error") = 1
    /\ Count(sessions["default"].activity_log,
             "Warning: Error parsing meal plan: Expecting value") = 1
    /\ Count(sessions["default"].activity_log,
             "Warning: Grocery item 'Saffron' not found in available ingredients") = 1
    /\ Count(sessions["default"].activity_log, "Using fallback meal plan") = 1

\* the entry generate_meal_plan logs when it has no credential
NoKeyEntry == "Using fallback meal plan (no API key)"

\* C13: without the credential, generate_meal_plan makes no generation
\* attempt (the run never waits for a generation call and the log never holds
\* a "generating" entry), logs that it uses the fallback, and returns exactly
\* the fallback plan for the slots and the catalog, which the chat turn
\* attaches and sends while the session becomes complete.
C13_NoCredential ==
    [][/\ ~api_key => pc # "generate" /\ pc' # "generate"
       /\ \A ingredients \in Catalogs :
             Research(ingredients) /\ ~api_key =>
                 /\ pc' = "idle"
                 /\ Count(RunningNext.activity_log, GeneratingEntry) = 0
                 /\ Count(RunningNext.activity_log, NoKeyEntry)
                        = Count(Running.activity_log, NoKeyEntry) + 1
                 /\ RunningNext.meal_plan =
                        _create_fallback_meal_plan(Running.user_data, ingredients).plan
                 /\ response'["meal_plan"] = RunningNext.meal_plan
                 /\ RunningNext.state = "complete"
                 /\ RunningNext.status = "complete"
      ]_vars

\* a conversation without the credential has gone from welcome to complete
C13_Witness ==
    /\ ~api_key
    /\ pc = "idle"
    /\ "default" \in DOMAIN sessions
    /\ sessions["default"].state = "complete"
    /\ sessions["default"].conversation_history[1] = [role |-> "user", content |-> "Hello"]
    /\ sessions["default"].user_data["location"] = "Ottawa"
    /\ Has(sessions["default"], "meal_plan")
    /\ Len(sessions["default"].meal_plan.days) = 7
    /\ Count(sessions["default"].activity_log, NoKeyEntry) = 1

\* the fallback plan for the slots and the catalog of the run
FallbackOfRun == _create_fallback_meal_plan(Running.user_data, work.ingredients).plan

\* C14: the validator gates the generated plans: the plan with which
\* generate_meal_plan ends a run that made generation attempts is the
\* fallback plan, or the plan of the last generation call when that plan
\* satisfies the validator against the catalog; a generated plan that does
\* not satisfy it is never the plan returned.
C14_ValidatorGates ==
    [][\A case \in GenerationCases :
          Generate(case) =>
              /\ pc' = "idle" =>
                    \/ RunningNext.meal_plan = FallbackOfRun
                    \/ /\ Parsed(case).kind = "plan"
                       /\ RunningNext.meal_plan = Parsed(case).plan
                       /\ Satisfies(Parsed(case).plan, work.ingredients)
              /\ Parsed(case).kind = "plan" /\ ~Satisfies(Parsed(case).plan, work.ingredients) =>
                    ~(Has(RunningNext, "meal_plan")
                      /\ RunningNext.meal_plan = Parsed(case).plan)
      ]_vars

\* a generated plan was rejected for a recipe ingredient, and the plan of the
\* next attempt was accepted and attached
C14_Witness ==
    /\ pc = "idle"
    /\ "default" \in DOMAIN sessions
    /\ Has(sessions["default"], "meal_plan")
    /\ Len(sessions["default"].meal_plan.days) = 1
    /\ Count(sessions["default"].activity_log,
             "Warning: Recipe ingredient 'Truffle' not available") = 1
    /\ Count(sessions["default"].activity_log, "Meal plan verified and ready!") = 1
    /\ Count(sessions["default"].activity_log, GeneratingEntry) = 2

\* C15: every plan a chat turn attaches to the session, generated or
\* fallback, satisfies the Plan Validator against the catalog the research
\* call returned for the run.
C15_AttachedPlanValidated ==
    [][/\ \A ingredients \in Catalogs :
             Research(ingredients) /\ Has(RunningNext, "meal_plan") =>
                 Satisfies(RunningNext.meal_plan, ingredients)
       /\ \A case \in GenerationCases :
             Generate(case) /\ Has(RunningNext, "meal_plan") =>
                 Satisfies(RunningNext.meal_plan, work.ingredients)
      ]_vars

\* some template of the pool has all its ingredients matching the catalog
SomeTemplateMatches(options, ingredients) ==
    \E i \in 1..Len(options) :
        \A j \in 1..Len(options[i].ingredients) :
            IsAvailable(options[i].ingredients[j].name, ingredients)

\* the fallback planner filters every pool down without emptying it
TemplatesMatch(ingredients) ==
    /\ SomeTemplateMatches(breakfast_options, ingredients)
    /\ SomeTemplateMatches(lunch_options, ingredients)
    /\ SomeTemplateMatches(dinner_options, ingredients)

\* the plan attached is the fallback plan for the catalog, made from a pool
\* that was used unfiltered
UnfilteredFallback(plan, user_data, ingredients) ==
    /\ ~TemplatesMatch(ingredients)
    /\ plan = _create_fallback_meal_plan(user_data, ingredients).plan

\* C15, amended: every generated plan a chat turn attaches satisfies the
\* Plan Validator against the researched catalog, and so does the fallback
\* plan when each template pool has a template matching the catalog; the
\* fallback plan is attached without validation, and the only plans attached
\* that do not satisfy the validator are fallback plans made from a pool in
\* which no template matched.
C15_AttachedPlanValidatedUnlessUnfiltered ==
    [][/\ \A ingredients \in Catalogs :
             Research(ingredients) /\ Has(RunningNext, "meal_plan") =>
                 \/ Satisfies(RunningNext.meal_plan, ingredients)
                 \/ UnfilteredFallback(RunningNext.meal_plan, Running.user_data, ingredients)
       /\ \A case \in GenerationCases :
             Generate(case) /\ Has(RunningNext, "meal_plan") =>
                 \/ Satisfies(RunningNext.meal_plan, work.ingredients)
                 \/ UnfilteredFallback(RunningNext.meal_plan, Running.user_data,
                                       work.ingredients)
      ]_vars

\* the fallback plan for the mock catalog, whose pools all filter down, is
\* attached after three failed attempts, and it satisfies the validator
C15_Witness ==
    /\ pc = "idle"
    /\ "default" \in DOMAIN sessions
    /\ Has(sessions["default"], "meal_plan")
    /\ Count(sessions["default"].activity_log,
             "Found 25 affordable ingredients at local stores") = 1
    /\ Count(sessions["default"].activity_log, "Using fallback meal plan") = 1
    /\ TemplatesMatch(_get_mock_ingredients)
    /\ Satisfies(sessions["default"].meal_plan, _get_mock_ingredients)

\* the plan has exactly 7 day entries, named Monday..Sunday in that order,
\* each with exactly the meals breakfast, lunch and dinner
SevenDays(plan) ==
    /\ Len(plan.days) = 7
    /\ \A i \in 1..Len(plan.days) :
          /\ i <= Len(days) /\ plan.days[i].day = days[i]
          /\ DOMAIN plan.days[i].meals = {"breakfast", "lunch", "dinner"}

\* C16: every meal plan attached to a session, generated or fallback, has
\* exactly 7 day entries, one per weekday in the order Monday..Sunday, each
\* with breakfast, lunch and dinner.
C16_SevenDays ==
    \A session_id \in DOMAIN sessions :
        Has(sessions[session_id], "meal_plan") => SevenDays(sessions[session_id].meal_plan)

\* ------------------------------- the fallback planner, called on its own

\* a catalog with no entries
EmptyCatalog == << >>

\* a catalog none of whose names matches an ingredient of a meal template
UnmatchedCatalog ==
    << Item("Tofu", 279, "proteins", "per block"),
       Item("Quinoa", 450, "grains", "per bag") >>

\* a catalog that matches only the dearest template of each pool
CostlyCatalog ==
    << Item("Eggs", 299, "proteins", "per dozen"),
       Item("Whole Wheat Bread", 250, "grains", "per loaf"),
       Item("Ground Turkey", 450, "proteins", "per lb"),
       Item("Chicken Breast", 499, "proteins", "per lb"),
       Item("Broccoli", 299, "vegetables", "per lb"),
       Item("Carrots", 150, "vegetables", "per lb") >>

\* a catalog that matches two breakfast templates, one lunch template and
\* two dinner templates
PairCatalog ==
    << Item("Oats", 299, "grains", "per container"),
       Item("Bananas", 199, "fruits", "per lb"),
       Item("Eggs", 299, "proteins", "per dozen"),
       Item("Whole Wheat Bread", 250, "grains", "per loaf"),
       Item("Ground Turkey", 450, "proteins", "per lb"),
       Item("Potatoes", 399, "vegetables", "per 5 lbs"),
       Item("Chicken Breast", 499, "proteins", "per lb"),
       Item("Broccoli", 299, "vegetables", "per lb"),
       Item("Carrots", 150, "vegetables", "per lb") >>

\* the catalogs _create_fallback_meal_plan is called with
FallbackCatalogs ==
    {EmptyCatalog, UnmatchedCatalog, CostlyCatalog, PairCatalog, ResearchedCatalog,
     _get_mock_ingredients}

\* the household sizes _create_fallback_meal_plan is called with
FallbackPeople == {1, 2, 4, 20}

\* the budgets, in cents, _create_fallback_meal_plan is called with
FallbackBudgets == {0, 1, 1000, 5057, 10000, 20000, 1000000}

\* the dicts that have key k with one of the values, or do not have it
Optional(k, values) == {<< >>} \cup {(k :> v) : v \in values}

\* the user_data dicts _create_fallback_meal_plan is called with
FallbackSlots ==
    {people @@ budget @@ location :
        people \in Optional("people", FallbackPeople),
        budget \in Optional("budget", FallbackBudgets),
        location \in Optional("location", {"Toronto"})}

\* a MealPlanner about to run _create_fallback_meal_plan(user_data,
\* ingredients, activity_log)
InitFallback ==
    /\ memo = Memo({}, FallbackCatalogs, {})
    /\ sessions = << >>
    /\ api_key = FALSE
    /\ pc = "idle"
    /\ req = << >>
    /\ response = << >>
    /\ work = << >>
    /\ call \in {[fn |-> "fallback", user_data |-> user_data, ingredients |-> ingredients,
                  activity_log |-> << >>, returned |-> << >>, done |-> FALSE] :
                    user_data \in FallbackSlots, ingredients \in FallbackCatalogs}

\* _create_fallback_meal_plan runs and returns
CallFallback ==
    /\ call.fn = "fallback"
    /\ ~call.done
    /\ \E out \in {_create_fallback_meal_plan(call.user_data, call.ingredients)} :
           call' = [call EXCEPT !.returned = out.plan,
                                !.activity_log = @ \o out.log,
                                !.done = TRUE]
    /\ UNCHANGED <<sessions, api_key, pc, req, response, work, memo>>

NextFallback == CallFallback

FallbackSpec == InitFallback /\ [][NextFallback]_vars

\* ------------------------------------------ properties: fallback planner

\* _create_fallback_meal_plan has returned
FallbackReturned == call.fn = "fallback" /\ call.done

\* the meal is a template of the list, whatever its cost
FromTemplates(meal, options) ==
    \E j \in 1..Len(options) : [meal EXCEPT !.cost = options[j].cost] = options[j]

\* C17: for all slots and all catalogs (an empty catalog and one matching no
\* template included), the plan the fallback planner returns has exactly 7
\* days, named Monday..Sunday in order, each day has exactly the keys
\* breakfast, lunch and dinner, and each of them holds a meal of the
\* corresponding template pool.
C17_FallbackShape ==
    FallbackReturned =>
        /\ Len(call.returned.days) = 7
        /\ [i \in 1..7 |-> call.returned.days[i].day]
             = <<"Monday", "Tuesday", "Wednesday", "Thursday", "Friday", "Saturday", "Sunday">>
        /\ \A i \in 1..7 :
              /\ DOMAIN call.returned.days[i] = {"day", "meals"}
              /\ DOMAIN call.returned.days[i].meals = {"breakfast", "lunch", "dinner"}
              /\ FromTemplates(call.returned.days[i].meals.breakfast, breakfast_options)
              /\ FromTemplates(call.returned.days[i].meals.lunch, lunch_options)
              /\ FromTemplates(call.returned.days[i].meals.dinner, dinner_options)

\* the fallback planner has returned a plan for a catalog that matches no
\* template and for empty slots: the pools are used unfiltered
C17_Witness ==
    /\ FallbackReturned
    /\ call.ingredients = UnmatchedCatalog
    /\ call.user_data = << >>
    /\ Len(call.returned.days) = 7
    /\ call.returned.days[3].meals.lunch.name = "Vegetable Soup"
    /\ call.returned.days[7].meals.dinner.name = "Chicken with Vegetables"

RECURSIVE GCD(_, _)
\* the greatest common divisor of two naturals, not both 0
GCD(a, b) == IF b = 0 THEN a ELSE GCD(b, a % b)

\* the two fractions are the same number
SameFraction(x, y) ==
    /\ x.num \div GCD(x.num, x.den) = y.num \div GCD(y.num, y.den)
    /\ x.den \div GCD(x.num, x.den) = y.den \div GCD(y.num, y.den)

\* the cost, in cents, that the template of this name has in the pool
TemplateCost(meal, options) ==
    options[CHOOSE j \in 1..Len(options) : options[j].name = meal.name].cost.num

\* the template pool of each meal type
TemplatePool ==
    [breakfast |-> breakfast_options, lunch |-> lunch_options, dinner |-> dinner_options]

\* the 21 meal slots of a week
MealSlots == (1..7) \X {"breakfast", "lunch", "dinner"}

\* the template cost of the meal selected for a slot of the plan
SelectedCost(plan, slot) ==
    TemplateCost(plan.days[slot[1]].meals[slot[2]], TemplatePool[slot[2]])

\* the cost the plan gives for a slot, a fraction of a cent
PlanCost(plan, slot) == plan.days[slot[1]].meals[slot[2]].cost

RECURSIVE SumOver(_, _, _)
\* the sum of the selected costs of the slots
SumOver(plan, slots, acc) ==
    IF slots = {} THEN acc
    ELSE LET slot == CHOOSE x \in slots : TRUE
         IN  SumOver(plan, slots \ {slot}, acc + SelectedCost(plan, slot))

\* the household size the fallback planner works with
PeopleOf(user_data) == IF Has(user_data, "people") THEN user_data["people"] ELSE 1

\* the budget, in cents, the fallback planner works with: the one supplied,
\* or 12.0 * people * 7 when none is
BudgetOf(user_data) ==
    IF Has(user_data, "budget") /\ user_data["budget"] > 0
    THEN user_data["budget"] ELSE 1200 * PeopleOf(user_data) * 7

\* the sum of the 21 selected meal costs multiplied by the household size
SelectedTotal == SumOver(call.returned, MealSlots, 0) * PeopleOf(call.user_data)

\* the fallback planner returned a plan whose selected meals cost more than
\* the budget
OverBudget == FallbackReturned /\ SelectedTotal > BudgetOf(call.user_data)

\* C20: in the fallback planner, if the sum of the 21 selected meal costs
\* multiplied by the household size exceeds the budget, every meal cost is its
\* template cost multiplied by the same factor (budget*0.9)/total,
\* weekly_summary.total_cost is 0.9*budget (to the cent, as round(.., 2) leaves
\* it), budget_utilization is "90.0%" and no meal cost is negative; if it does
\* not exceed the budget, every meal cost is its template cost and the
\* utilization is total/budget, as a percentage with one decimal.
C20_BudgetScaling ==
    FallbackReturned =>
        LET plan == call.returned
            budget == BudgetOf(call.user_data)
            total == SelectedTotal
        IN  /\ total > budget =>
                  /\ \A slot \in MealSlots :
                        /\ SameFraction(PlanCost(plan, slot),
                                        [num |-> SelectedCost(plan, slot) * 9 * budget,
                                         den |-> 10 * total])
                        /\ PlanCost(plan, slot).num >= 0
                        /\ PlanCost(plan, slot).den > 0
                  /\ plan.weekly_summary.total_cost = RoundDiv(9 * budget, 10)
                  /\ plan.weekly_summary.budget_utilization = "90.0%"
            /\ total <= budget =>
                  /\ \A slot \in MealSlots :
                        PlanCost(plan, slot) = [num |-> SelectedCost(plan, slot), den |-> 1]
                  /\ plan.weekly_summary.total_cost = total
                  /\ plan.weekly_summary.budget_utilization
                       = FormatPercent(RoundDiv(total * 1000, budget))

\* 2 people with a budget of $50.57 and the mock catalog: the 21 meals cost
\* 2 * $81.25, which is scaled to $45.51
C20_Witness ==
    /\ OverBudget
    /\ call.user_data = ("people" :> 2) @@ ("budget" :> 5057)
    /\ call.ingredients = _get_mock_ingredients
    /\ SelectedTotal = 16250
    /\ call.returned.weekly_summary.total_cost = 4551
    /\ call.returned.weekly_summary.budget_utilization = "90.0%"
    /\ call.returned.days[1].meals.dinner.cost # [num |-> 600, den |-> 1]

\* --------------------------------------- the validator, called on its own

\* applications of _validate_meal_plan to one (plan, catalog) pair
MaxCalls == 2

\* the catalogs _validate_meal_plan is called with
ValidatorCatalogs == {EmptyCatalog, ResearchedCatalog, _get_mock_ingredients}

\* the ingredient names of the plans _validate_meal_plan is called with: names
\* of a catalog, a part of one in lower case, one in upper case inside a
\* longer name, and names of no catalog
ValidatorNames == {"Oats", "Tofu", "rice", "Organic BANANAS", "Saffron", "Truffle"}

\* a grocery-list entry for the name
GroceryItem(name) ==
    [ingredient |-> name, quantity |-> "1", unit |-> "unit",
     estimated_cost |-> 100, category |-> "other"]

\* a meal made of the names
MealOf(names) ==
    [name |-> "Dish", ingredients |-> [j \in 1..Len(names) |-> Ing(names[j], "1 cup")],
     recipe |-> "Cook and serve.", cooking_time |-> "15 minutes",
     difficulty |-> "easy", cost |-> [num |-> 100, den |-> 1]]

\* the grocery lists of the plans _validate_meal_plan is called with
ValidatorGroceries ==
    { << >>,
      <<GroceryItem("Oats")>>,
      <<GroceryItem("rice"), GroceryItem("Organic BANANAS")>>,
      <<GroceryItem("Oats"), GroceryItem("Saffron")>>,
      <<GroceryItem("Saffron"), GroceryItem("Truffle")>>,
      <<GroceryItem("Tofu"), GroceryItem("Truffle"), GroceryItem("Saffron")>> }

\* the 'days' lists of the plans _validate_meal_plan is called with; a day may
\* lack 'meals', and a meal 'ingredients'
ValidatorDays ==
    { << >>,
      <<[day |-> "Monday",
         meals |-> [breakfast |-> MealOf(<<"Oats">>), lunch |-> MealOf(<<"Oats">>),
                    dinner |-> MealOf(<<"Oats">>)]]>>,
      <<[day |-> "Monday",
         meals |-> [breakfast |-> MealOf(<<"Oats">>),
                    lunch |-> MealOf(<<"rice", "Truffle">>),
                    dinner |-> MealOf(<<"Saffron">>)]]>>,
      <<[day |-> "Monday",
         meals |-> [breakfast |-> MealOf(<<"Organic BANANAS">>),
                    lunch |-> MealOf(<<"Oats">>), dinner |-> MealOf(<<"Oats">>)]],
        [day |-> "Tuesday",
         meals |-> [breakfast |-> MealOf(<<"Oats">>), lunch |-> MealOf(<<"Oats">>),
                    dinner |-> MealOf(<<"Oats", "Saffron">>)]]>>,
      <<[day |-> "Monday"],
        [day |-> "Tuesday", meals |-> [lunch |-> MealOf(<<"Tofu">>)]]>>,
      <<[day |-> "Monday",
         meals |-> [breakfast |-> [name |-> "Fast"],
                    snack |-> MealOf(<<"Truffle">>)]]>> }

\* the plans _validate_meal_plan is called with; a plan may lack
\* 'grocery_list' or 'days'
ValidatorPlans ==
    {[grocery_list |-> grocery_list, days |-> plan_days] :
        grocery_list \in ValidatorGroceries, plan_days \in ValidatorDays}
    \cup {[days |-> plan_days] : plan_days \in ValidatorDays}
    \cup {[grocery_list |-> grocery_list] : grocery_list \in ValidatorGroceries}

\* a MealPlanner about to run _validate_meal_plan(meal_plan, ingredients,
\* activity_log)
InitValidator ==
    /\ memo = Memo({}, ValidatorCatalogs, ValidatorNames)
    /\ sessions = << >>
    /\ api_key = TRUE
    /\ pc = "idle"
    /\ req = << >>
    /\ response = << >>
    /\ work = << >>
    /\ call \in {[fn |-> "validate", meal_plan |-> meal_plan, ingredients |-> ingredients,
                  activity_log |-> << >>, results |-> << >>] :
                    meal_plan \in ValidatorPlans, ingredients \in ValidatorCatalogs}

\* _validate_meal_plan that accepts a plan once the log holds an entry
CallValidate_log_sensitive ==
    /\ call.fn = "validate"
    /\ Len(call.results) < MaxCalls
    /\ \E checked \in {_validate_meal_plan(call.meal_plan, call.ingredients)} :
           call' = [call EXCEPT
                       !.results = Append(@, checked.valid \/ call.activity_log # << >>),
                       !.activity_log = @ \o checked.log]
    /\ UNCHANGED <<sessions, api_key, pc, req, response, work, memo>>

\* _validate_meal_plan runs on the pair, with the log the earlier runs left,
\* and returns
CallValidate ==
    /\ call.fn = "validate"
    /\ Len(call.results) < MaxCalls
    /\ \E checked \in {_validate_meal_plan(call.meal_plan, call.ingredients)} :
           call' = [call EXCEPT !.results = Append(@, checked.valid),
                                !.activity_log = @ \o checked.log]
    /\ UNCHANGED <<sessions, api_key, pc, req, response, work, memo>>

NextValidator == CallValidate

ValidatorSpec == InitValidator /\ [][NextValidator]_vars

\* ------------------------------------------------- properties: validator

\* some catalog name contains the name or is contained in it, whatever the case
Matched(name, ingredients) ==
    \E i \in 1..Len(ingredients) :
        \/ Contains(lower(name), lower(ingredients[i].name))
        \/ Contains(lower(ingredients[i].name), lower(name))

\* the ingredient names of the grocery-list entries, in order
GroceryNames(plan) ==
    IF Has(plan, "grocery_list")
    THEN [i \in 1..Len(plan.grocery_list) |-> plan.grocery_list[i].ingredient]
    ELSE << >>

RECURSIVE RecipeNames(_)
\* the recipe ingredient names of every meal of every day of the list, in order
RecipeNames(plan_days) ==
    IF plan_days = << >> THEN << >>
    ELSE (IF Has(Head(plan_days), "meals")
          THEN MealNames(Head(plan_days).meals, meals_items(Head(plan_days).meals))
          ELSE << >>) \o RecipeNames(Tail(plan_days))

\* the grocery warning and the recipe warning for a name
Warnings(name) ==
    [grocery |-> "Warning: Grocery item '" \o name \o "' not found in available ingredients",
     recipe |-> "Warning: Recipe ingredient '" \o name \o "' not available"]

\* the warning for the first name of the plan that the catalog does not
\* match, the grocery list coming before the days
FirstWarning(plan, ingredients) ==
    LET grocery == GroceryNames(plan)
        recipe == RecipeNames(IF Has(plan, "days") THEN plan.days ELSE << >>)
        bad_grocery == {i \in 1..Len(grocery) : ~Matched(grocery[i], ingredients)}
        bad_recipe == {i \in 1..Len(recipe) : ~Matched(recipe[i], ingredients)}
    IN  IF bad_grocery # {} THEN <<Warnings(grocery[Least(bad_grocery)]).grocery>>
        ELSE IF bad_recipe # {} THEN <<Warnings(recipe[Least(bad_recipe)]).recipe>>
        ELSE << >>

\* every grocery-list name and every recipe ingredient name is matched
AllMatched(plan, ingredients) ==
    /\ \A i \in 1..Len(GroceryNames(plan)) : Matched(GroceryNames(plan)[i], ingredients)
    /\ \A d \in 1..(IF Has(plan, "days") THEN Len(plan.days) ELSE 0) :
          Has(plan.days[d], "meals") =>
              \A t \in DOMAIN plan.days[d].meals :
                  Has(plan.days[d].meals[t], "ingredients") =>
                      \A j \in 1..Len(plan.days[d].meals[t].ingredients) :
                          Matched(plan.days[d].meals[t].ingredients[j].name, ingredients)

\* C18: _validate_meal_plan(plan, catalog) returns true if and only if every
\* grocery-list entry's ingredient name and every recipe ingredient name of
\* every meal of every day has, whatever the case, some catalog name that
\* contains it or is contained in it; when it returns false it appends one
\* entry to the log, the warning for the first unmatched name, and when it
\* returns true it appends none; it changes neither the plan nor the catalog.
C18_Validate ==
    [][call.fn = "validate" =>
          /\ Len(call'.results) = Len(call.results) + 1
          /\ call'.results[Len(call'.results)] = AllMatched(call.meal_plan, call.ingredients)
          /\ call'.activity_log
               = call.activity_log \o FirstWarning(call.meal_plan, call.ingredients)
          /\ AllMatched(call.meal_plan, call.ingredients)
               <=> FirstWarning(call.meal_plan, call.ingredients) = << >>
          /\ Len(FirstWarning(call.meal_plan, call.ingredients)) <= 1
          /\ call'.meal_plan = call.meal_plan
          /\ call'.ingredients = call.ingredients
      ]_vars

\* the validator has rejected a plan whose grocery list is matched, "rice" by
\* 'Brown Rice' and "Organic BANANAS" by 'Bananas', at the first unmatched
\* recipe name, the second of Monday's lunch
C18_Witness ==
    /\ call.fn = "validate"
    /\ call.ingredients = _get_mock_ingredients
    /\ GroceryNames(call.meal_plan) = <<"rice", "Organic BANANAS">>
    /\ Has(call.meal_plan, "days")
    /\ RecipeNames(call.meal_plan.days) = <<"Oats", "rice", "Truffle", "Saffron">>
    /\ call.results = <<FALSE>>
    /\ call.activity_log = <<"Warning: Recipe ingredient 'Truffle' not available">>

Min(a, b) == IF a < b THEN a ELSE b

\* C21: the fallback plan's grocery list consists of the first
\* min(20, len(catalog)) catalog ingredients in catalog order, each with
\* estimated_cost equal to its catalog price, so its length is at most 20 and
\* total_grocery_cost is the sum of those prices; weekly_summary.serves is the
\* people slot and weekly_summary.location the location slot.
C21_FallbackGrocery ==
    FallbackReturned =>
        LET plan == call.returned
            catalog == call.ingredients
            n == Min(20, Len(catalog))
        IN  /\ Len(plan.grocery_list) = n
            /\ Len(plan.grocery_list) <= 20
            /\ \A i \in 1..n :
                  /\ plan.grocery_list[i].ingredient = catalog[i].name
                  /\ plan.grocery_list[i].estimated_cost = catalog[i].price
                  /\ plan.grocery_list[i].category = catalog[i].category
            /\ plan.total_grocery_cost = sum([i \in 1..n |-> catalog[i].price])
            /\ Has(call.user_data, "people") =>
                  plan.weekly_summary.serves = call.user_data["people"]
            /\ Has(call.user_data, "location") =>
                  plan.weekly_summary.location = call.user_data["location"]

\* the spec's scenario: 4 people, $100, Toronto and the mock catalog of 25
\* entries, of which the first 20 make the grocery list
C21_Witness ==
    /\ FallbackReturned
    /\ call.user_data = ("people" :> 4) @@ ("budget" :> 10000) @@ ("location" :> "Toronto")
    /\ call.ingredients = _get_mock_ingredients
    /\ Len(call.ingredients) = 25
    /\ Len(call.returned.grocery_list) = 20
    /\ call.returned.grocery_list[20].ingredient = "Cheese"
    /\ call.returned.total_grocery_cost = 5888
    /\ call.returned.weekly_summary.serves = 4
    /\ call.returned.weekly_summary.location = "Toronto"

\* ------------------- PerplexityClient.research_ingredients, on its own

RECURSIVE rfind(_, _, _)
\* str.rfind(pat) + 1: the last position <= i where pat occurs, else 0
rfind(s, pat, i) ==
    IF i < 1 THEN 0
    ELSE IF StartsAt(s, pat, i) THEN i
    ELSE rfind(s, pat, i - 1)

\* the message contents the research API answers with
ResearchContents ==
    { "I could not find any prices.",
      "] nothing [",
      "Prices: [not, json]",
      "None found: []",
      "[1, 2]",
      "Here: [{\"name\": \"Oats\", \"price\": 1.89, \"store\": \"Walmart\", \"category\": \"grains\", \"unit\": \"per container\"}] Enjoy!" }

\* json.loads(json_str) for the texts cut out of ResearchContents: the list
\* parsed, or kind "JSONDecodeError"
json_loads(json_str) ==
    CASE json_str = "[]" -> [kind |-> "list", value |-> << >>]
      [] json_str = "[1, 2]" -> [kind |-> "list", value |-> <<1, 2>>]
      [] json_str = "[{\"name\": \"Oats\", \"price\": 1.89, \"store\": \"Walmart\", \"category\": \"grains\", \"unit\": \"per container\"}]" ->
             [kind |-> "list",
              value |-> <<Item("Oats", 189, "grains", "per container")>>]
      [] OTHER -> [kind |-> "JSONDecodeError", value |-> << >>]

\* a test that lets an empty list through
list_of_any_length(ingredients) == ingredients.kind = "list"

\* isinstance(ingredients, list) and len(ingredients) > 0
list_not_empty(ingredients) == ingredients.kind = "list" /\ Len(ingredients.value) > 0

\* the bodies response.json() gives: none (json() raises), an object without
\* 'choices', with an empty 'choices', with a choice that has no 'message',
\* and with a choice whose message has one of the contents
ResearchResults ==
    { [parsed |-> FALSE, choices |-> << >>], [parsed |-> TRUE],
      [parsed |-> TRUE, choices |-> << >>],
      [parsed |-> TRUE, choices |-> <<[index |-> 0]>>] }
    \cup {[parsed |-> TRUE, choices |-> <<[message |-> [content |-> content]]>>] :
             content \in ResearchContents}

\* what requests.post does: it raises, or it returns a response
ResearchReplies ==
    {[raises |-> TRUE, status_code |-> 0, result |-> [parsed |-> FALSE, choices |-> << >>]]}
    \cup {[raises |-> FALSE, status_code |-> status_code, result |-> result] :
             status_code \in {200, 401, 429, 500}, result \in ResearchResults}

\* PerplexityClient.research_ingredients(location, budget) with
\* PERPLEXITY_API_KEY set or not and requests.post doing `reply`
PerplexityClient_research_ingredients(key, reply) ==
    LET content == reply.result.choices[1].message.content
        json_start == find(content, "[", 1) - 1
        json_end == rfind(content, "]", Len(content))
        ingredients == json_loads(SubSeq(content, json_start + 1, json_end))
    IN  IF ~key THEN _get_mock_ingredients
        ELSE IF reply.raises THEN _get_mock_ingredients
        ELSE IF reply.status_code # 200 THEN _get_mock_ingredients
        ELSE IF ~reply.result.parsed THEN _get_mock_ingredients
        ELSE IF ~Has(reply.result, "choices") THEN _get_mock_ingredients
        ELSE IF Len(reply.result.choices) = 0 THEN _get_mock_ingredients
        ELSE IF ~Has(reply.result.choices[1], "message") THEN _get_mock_ingredients
        ELSE IF ~(json_start # -1 /\ json_end > json_start) THEN _get_mock_ingredients
        ELSE IF list_not_empty(ingredients) THEN ingredients.value
        ELSE _get_mock_ingredients

\* a PerplexityClient about to run research_ingredients(location, budget)
InitResearch ==
    /\ memo = Memo({}, {}, {})
    /\ sessions = << >>
    /\ api_key = FALSE
    /\ pc = "idle"
    /\ req = << >>
    /\ response = << >>
    /\ work = << >>
    /\ call \in {[fn |-> "research", key |-> key, location |-> location, budget |-> 5000,
                  reply |-> reply, returned |-> << >>, done |-> FALSE] :
                    key \in BOOLEAN, location \in {"Ottawa", "Toronto"},
                    reply \in ResearchReplies}

\* research_ingredients runs and returns
CallResearch ==
    /\ call.fn = "research"
    /\ ~call.done
    /\ call' = [call EXCEPT
                   !.returned = PerplexityClient_research_ingredients(call.key, call.reply),
                   !.done = TRUE]
    /\ UNCHANGED <<sessions, api_key, pc, req, response, work, memo>>

NextResearch == CallResearch

ResearchSpec == InitResearch /\ [][NextResearch]_vars

\* ---------------------------------------- properties: research client

\* research_ingredients has returned
ResearchReturned == call.fn = "research" /\ call.done

\* the content of the first choice of the reply, "" when there is none
ContentOf(reply) ==
    IF /\ Has(reply.result, "choices")
       /\ Len(reply.result.choices) > 0
       /\ Has(reply.result.choices[1], "message")
    THEN reply.result.choices[1].message.content
    ELSE ""

\* the part of the content from its first [ to its last ], "" when there is
\* no such part
BracketPart(content) ==
    IF find(content, "[", 1) > 0 /\ rfind(content, "]", Len(content)) > find(content, "[", 1)
    THEN SubSeq(content, find(content, "[", 1), rfind(content, "]", Len(content)))
    ELSE ""

\* the call has a credential and got a 200 response whose first choice holds
\* a JSON list that is not empty
ResearchSucceeds(key, reply) ==
    /\ key
    /\ ~reply.raises
    /\ reply.status_code = 200
    /\ reply.result.parsed
    /\ json_loads(BracketPart(ContentOf(reply))).kind = "list"
    /\ json_loads(BracketPart(ContentOf(reply))).value # << >>

\* C22: research_ingredients always returns a non-empty ingredient list: with
\* no credential, on a non-200 response, on a response without choices, on
\* unparsable or empty JSON, and on any exception of the HTTP call it returns
\* the fixed mock catalog; otherwise it returns the list the API sent.
C22_ResearchNeverEmpty ==
    ResearchReturned =>
        /\ Len(call.returned) > 0
        /\ ~ResearchSucceeds(call.key, call.reply) => call.returned = _get_mock_ingredients
        /\ ResearchSucceeds(call.key, call.reply) =>
              call.returned = json_loads(BracketPart(ContentOf(call.reply))).value

\* with a credential and a 200 response whose content holds an empty JSON
\* list, the mock catalog of 25 entries has been returned
C22_Witness ==
    /\ ResearchReturned
    /\ call.key
    /\ ~call.reply.raises
    /\ call.reply.status_code = 200
    /\ ContentOf(call.reply) = "None found: []"
    /\ call.returned = _get_mock_ingredients
    /\ Len(call.returned) = 25

\* ---------------------------------------- properties: errors of a run

\* the generation call of this step returns a plan that passes the validator
\* and whose summary the final message cannot format: chat() raises
Raising(case) ==
    /\ GenerationOutput(case, Running.user_data, work.ingredients).kind = "plan"
    /\ ~GenerationOutput(case, Running.user_data, work.ingredients).summary_ok
    /\ _validate_meal_plan(GenerationOutput(case, Running.user_data, work.ingredients).plan,
                           work.ingredients).valid

\* the reply of chat() for an exception whose text is `error`
ErrorReply(error) ==
    "I encountered an error while creating your meal plan. "
    \o "Please try again or contact support. Error: " \o error

\* C23: if planning raises an unexpected exception during a chat turn, the
\* exception is caught: the session status becomes error, an error entry is
\* appended to the activity log, the reply carries an apology with the error
\* text, no plan is attached, the slots and the conversation state are kept,
\* and the next chat turn of the session starts the planning pipeline again
\* with the same slots.
C23_ErrorCaught ==
    [][/\ \A case \in GenerationCases :
             Generate(case) /\ Raising(case) =>
                 /\ pc' = "idle"
                 /\ RunningNext.status = "error"
                 /\ IsPrefix(Running.activity_log, RunningNext.activity_log)
                 /\ Len(RunningNext.activity_log) > Len(Running.activity_log)
                 /\ RunningNext.activity_log[Len(RunningNext.activity_log)]
                      = "Warning: Error: " \o response'.error
                 /\ response'.status = "error"
                 /\ response'.message = ErrorReply(response'.error)
                 /\ ~Has(RunningNext, "meal_plan")
                 /\ ~Has(response', "meal_plan")
                 /\ RunningNext.user_data = Running.user_data
                 /\ RunningNext.state = Running.state
                 /\ RunningNext.conversation_history = Running.conversation_history
       /\ \A session_id \in DOMAIN sessions, user_message \in Messages :
             /\ sessions[session_id].status = "error"
             /\ Chat(session_id, user_message, "text")
             => /\ pc' = "research"
                /\ sessions'[session_id].status = "processing"
                /\ sessions'[session_id].user_data = sessions[session_id].user_data
                /\ ~Has(sessions'[session_id], "meal_plan")
      ]_vars

\* a run has raised, and the next chat turn of the session has started the
\* pipeline again
C23_Witness ==
    /\ pc = "research"
    /\ Running.status = "processing"
    /\ \E i \in 1..Len(Running.activity_log) :
          /\ Running.activity_log[i]
               = "Warning: Error: Unknown format code 'f' for object of type 'str'"
          /\ i < Len(Running.activity_log)
    /\ RequiredPresent(Running.user_data)
    /\ ~Has(Running, "meal_plan")

\* this step ends a planning run: a Research step without a credential, or a
\* Generate step that leaves the retry loop
RunEnds == pc \in {"research", "generate"} /\ pc' = "idle"

\* this step is a Generate step in which chat() raises
RunRaises == \E case \in GenerationCases : Generate(case) /\ Raising(case)

\* C24 as stated: after a chat turn in which planning ran, the session state is
\* complete if the plan was attached and error if planning raised.
C24_StateCompleteOrError ==
    [][RunEnds =>
          /\ Has(RunningNext, "meal_plan") => RunningNext.state = "complete"
          /\ RunRaises => RunningNext.state = "error"
      ]_vars

\* C24, amended: after a chat turn in which planning ran, the session state is
\* complete if the plan was attached; if planning raised, the session status
\* is error, no plan is attached and the state tag stays processing.
C24_StateCompleteStatusError ==
    [][RunEnds =>
          /\ Has(RunningNext, "meal_plan") =>
                RunningNext.state = "complete" /\ RunningNext.status = "complete"
          /\ RunRaises =>
                /\ RunningNext.status = "error"
                /\ RunningNext.state = "processing"
                /\ Running.state = "processing"
                /\ ~Has(RunningNext, "meal_plan")
          /\ Has(RunningNext, "meal_plan") \/ RunRaises
      ]_vars

\* a planning run has raised: the request is over, the status is error and
\* the state tag is still processing
C24_Witness ==
    /\ pc = "idle"
    /\ req # << >>
    /\ Running.status = "error"
    /\ Running.state = "processing"
    /\ ~Has(Running, "meal_plan")
    /\ Has(response, "error")

\* ----------------------- the slot extractor, called on its own

\* the household counts written in the messages
PeopleCounts == (0..25) \cup {100}

\* the messages that hold "{n} people" as their only household count
PeopleTexts(n) ==
    { FormatInt(n) \o " people",
      "We are " \o FormatInt(n) \o " people",
      "feeding " \o FormatInt(n) \o " people",
      FormatInt(n) \o " people in Toronto with a budget of $100" }

\* the budgets, in cents, written in the messages
BudgetAmounts == {500, 1000, 1250, 5000, 9999, 10000, 100000, 1000000, 1000050}

\* "{x:g}"-like text of an amount: whole dollars without decimals, others
\* with two
DollarText(cents) ==
    IF cents % 100 = 0 THEN FormatInt(cents \div 100) ELSE FormatMoney(cents)

\* the messages of the form "budget is $X"
BudgetTexts(cents) ==
    { "budget is $" \o DollarText(cents),
      "My budget is $" \o DollarText(cents),
      "2 people in Ottawa, budget is $" \o DollarText(cents) \o " per week" }

\* the messages whose only amount is a bare "$X": with no budget-context word
\* at all, and with one more than ContextWindow characters after the amount
BareTexts(cents) ==
    { "$" \o DollarText(cents),
      "I have $" \o DollarText(cents),
      "4 people in Toronto, $" \o DollarText(cents),
      "$" \o DollarText(cents) \o " is all I have got for us until next week" }

\* messages that mention dietary restrictions and preferences
DietTexts ==
    { "I am vegan",
      "vegetarian, gluten free and halal",
      "no allergies",
      "no preferences",
      "no dietary restrictions, I like rice",
      "I have no allergies but I am vegan",
      "I like pasta, halal please",
      "nothing special" }

\* the texts _extract_user_data is called with
ExtractTexts ==
    UNION {PeopleTexts(n) : n \in PeopleCounts}
    \cup UNION {BudgetTexts(cents) \cup BareTexts(cents) : cents \in BudgetAmounts}
    \cup DietTexts

\* the existing_data dicts _extract_user_data is called with
ExtractExisting ==
    { << >>,
      [people |-> 3, budget |-> 7500],
      [dietary_restrictions |-> <<"halal">>],
      [people |-> 3, budget |-> 7500, location |-> "Ottawa",
       dietary_restrictions |-> <<"vegan", "halal">>, preferences |-> "rice"] }

\* existing_data after _extract_user_data(text, existing_data): data is
\* existing_data.copy(), a shallow copy, so data.get('dietary_restrictions')
\* is the list object of existing_data and restrictions.append(..) grows it
existing_data_after(scan, existing_data) ==
    IF Has(existing_data, "dietary_restrictions")
    THEN [existing_data EXCEPT
             !["dietary_restrictions"] = AppendRestrictions(@, scan.mentioned, 1)]
    ELSE existing_data

\* a ChatManager about to run _extract_user_data(text, existing_data);
\* `given` keeps the value existing_data has at the call
InitExtract ==
    /\ memo = Memo(ExtractTexts, {}, {})
    /\ sessions = << >>
    /\ api_key = FALSE
    /\ pc = "idle"
    /\ req = << >>
    /\ response = << >>
    /\ work = << >>
    /\ call \in {[fn |-> "extract", text |-> text, existing_data |-> existing_data,
                  given |-> existing_data, returned |-> << >>, done |-> FALSE] :
                    text \in ExtractTexts, existing_data \in ExtractExisting}

\* _extract_user_data runs and returns
CallExtract ==
    /\ call.fn = "extract"
    /\ ~call.done
    /\ call' = [call EXCEPT
                   !.returned = _extract_user_data(call.text, call.existing_data),
                   !.existing_data = existing_data_after(Scanned(call.text), @),
                   !.done = TRUE]
    /\ UNCHANGED <<sessions, api_key, pc, req, response, work, memo>>

NextExtract == CallExtract

ExtractSpec == InitExtract /\ [][NextExtract]_vars

\* ------------------------------------------ properties: slot extractor

\* _extract_user_data has returned
ExtractReturned == call.fn = "extract" /\ call.done

\* the value of a slot in a dict, "absent" when the dict does not have it
Slot(d, k) == IF Has(d, k) THEN <<d[k]>> ELSE << >>

\* C25: for every household count n in 1..20, extracting from a message
\* that holds "{n} people" as its only household count yields people = n; for
\* every n outside 1..20 it leaves people as it was in the existing slots.
C25_PeopleInRange ==
    ExtractReturned =>
        \A n \in PeopleCounts :
            call.text \in PeopleTexts(n) =>
                /\ (1 <= n /\ n <= 20) => Slot(call.returned, "people") = <<n>>
                /\ ~(1 <= n /\ n <= 20) =>
                      Slot(call.returned, "people") = Slot(call.given, "people")

\* "We are 20 people" has set people to 20 in slots that had people = 3
C25_Witness ==
    /\ ExtractReturned
    /\ call.text = "We are 20 people"
    /\ Slot(call.given, "people") = <<3>>
    /\ Slot(call.returned, "people") = <<20>>

\* the amount is one that the extractor accepts as a budget: $10 to $10000
AcceptedBudget(cents) == 1000 <= cents /\ cents <= 1000000

\* C26: for every X in [10, 10000], extracting from a message of the form
\* "budget is $X" yields budget = X; extracting from a message whose only
\* amount is a bare "$X", with no budget-context word (budget, spend, afford,
\* cost, weekly, week) near it, leaves the budget as it was in the existing
\* slots.
C26_BudgetIsX ==
    ExtractReturned =>
        \A cents \in BudgetAmounts :
            /\ call.text \in BudgetTexts(cents) /\ AcceptedBudget(cents) =>
                  Slot(call.returned, "budget") = <<cents>>
            /\ call.text \in BareTexts(cents) =>
                  Slot(call.returned, "budget") = Slot(call.given, "budget")

\* "My budget is $12.50" has set the budget to 12.50 in slots that had 75
C26_Witness ==
    /\ ExtractReturned
    /\ call.text = "My budget is $12.50"
    /\ Slot(call.given, "budget") = <<7500>>
    /\ Slot(call.returned, "budget") = <<1250>>

\* ------------------------------------- properties: the one-message scenario

ScenarioMessage == "4 people in Toronto with a budget of $100, no restrictions"

\* this step is a chat turn of session "default" with the scenario message,
\* taken in collecting_info with no slot filled
ScenarioTurn ==
    /\ pc = "idle"
    /\ Has(sessions, "default")
    /\ sessions["default"].state = "collecting_info"
    /\ sessions["default"].user_data = << >>
    /\ Len(sessions'["default"].conversation_history)
           > Len(sessions["default"].conversation_history)
    /\ req' = [session_id |-> "default", message |-> ScenarioMessage]

\* the slots the scenario message fills
ScenarioSlots(user_data) ==
    /\ Slot(user_data, "people") = <<4>>
    /\ Slot(user_data, "budget") = <<10000>>
    /\ Slot(user_data, "location") = <<"Toronto">>
    /\ Slot(user_data, "dietary_restrictions") \in {<< >>, << << >> >>}

\* C27: in state collecting_info with empty slots, the single message
\* "4 people in Toronto with a budget of $100, no restrictions" sets people = 4,
\* budget = 100, location = Toronto and an empty list of dietary restrictions
\* in that one turn, and the session moves directly to confirm: the reply is
\* the confirmation of these slots, not a prompt for a missing field.
C27_OneMessageFillsAll ==
    [][ScenarioTurn =>
          /\ ScenarioSlots(sessions'["default"].user_data)
          /\ sessions'["default"].state = "confirm"
          /\ response'.state = "confirm"
          /\ response'.message
                 = _generate_confirmation(sessions'["default"].user_data).message
          /\ pc' = "idle"]_vars

\* the scenario message was the first message after the greeting and the
\* session is in confirm with the four slots
C27_Witness ==
    /\ pc = "idle"
    /\ Has(sessions, "default")
    /\ Len(sessions["default"].conversation_history) = 3
    /\ sessions["default"].conversation_history[3]
           = [role |-> "user", content |-> ScenarioMessage]
    /\ sessions["default"].state = "confirm"
    /\ ScenarioSlots(sessions["default"].user_data)

\* C28: the slot extractor is pure: _extract_user_data(text, existing) returns
\* a new dict, the dict _extract_user_data computes from (text, existing)
\* alone, and leaves the existing dict passed to it unmodified, its list of
\* dietary restrictions included.
C28_ExistingUnmodified ==
    ExtractReturned =>
        /\ call.returned = _extract_user_data(call.text, call.given)
        /\ call.existing_data = call.given

\* ------------------------------------------ two clients, served in parallel

\* turns each of the two clients takes
MaxTurnsEach == 3

\* the texts the two clients send: a greeting, the slots, the confirmation
TwoMessages ==
    {"Hello", "4 people in Toronto with a budget of $100, no restrictions", "Yes"}

\* the outputs of a generation call that the two requests meet
TwoOutputs == {"no_json", "valid"}

\* the entries of the store under the one key session_id
Only(store, session_id) == [x \in DOMAIN store \cap {session_id} |-> store[x]]

\* the server handles the requests of the two clients in two threads, of
\* which one runs at a time: pc, req, response and work are the locals of the
\* running thread, call.waiting holds the locals of the other thread and the
\* client it serves, and call.session_id is the session_id attribute of the
\* one MealPlanner both threads use
Served == CHOOSE session_id \in SessionIds : session_id # call.waiting.client

InitTwo ==
    /\ sessions = << >>
    /\ api_key \in BOOLEAN
    /\ pc = "idle"
    /\ req = << >>
    /\ response = << >>
    /\ work = << >>
    /\ memo = Memo(TwoMessages, Catalogs, KnownNames)
    /\ call = [fn |-> "serving", session_id |-> "",
               waiting |-> [client |-> "guest", pc |-> "idle", req |-> << >>,
                            response |-> << >>, work |-> << >>]]

\* POST /api/chat of the client the running thread serves
ChatRunning(user_message) ==
    /\ Turns(Only(sessions, Served)) < MaxTurnsEach
    /\ chat(sessions, sessions', Served, user_message, "text")

\* the running thread is suspended and the other thread resumes
Switch ==
    /\ call' = [call EXCEPT !.waiting = [client |-> Served, pc |-> pc, req |-> req,
                                         response |-> response, work |-> work]]
    /\ pc' = call.waiting.pc
    /\ req' = call.waiting.req
    /\ response' = call.waiting.response
    /\ work' = call.waiting.work
    /\ UNCHANGED <<sessions, api_key, memo>>

NextTwo ==
    \/ \E user_message \in TwoMessages : ChatRunning(user_message)
    \/ \E ingredients \in Catalogs : Research(ingredients)
    \/ \E case \in TwoOutputs : Generate(case)
    \/ \E session_id \in SessionIds : Poll(session_id)
    \/ Switch

TwoSpec == InitTwo /\ [][NextTwo]_vars

\* ------------------------------------- properties: independent sessions

\* this step, seen on the session of session_id alone, is a chat turn, a
\* research step or a generation step of the request the running thread
\* handles, taken on a store that holds no other session
OwnStep(session_id) ==
    \/ \E user_message \in TwoMessages :
           chat(Only(sessions, session_id), Only(sessions', session_id),
                session_id, user_message, "text")
    \/ \E ingredients \in Catalogs :
           ResearchOn(Only(sessions, session_id), Only(sessions', session_id), ingredients)
    \/ \E case \in TwoOutputs :
           GenerateOn(Only(sessions, session_id), Only(sessions', session_id), case)

\* C29: operations on different session ids are independent: in every
\* interleaving of the chat turns, log appends and polls of two session ids,
\* each step leaves every session either as it was, or as a poll of that id
\* alone creates it, or as the running request of that id leaves it when it
\* is executed on a store without the other session; so each session ends
\* as if only its own operations had been executed, and no operation on one
\* id reads or changes the other session.
C29_SessionsIndependent ==
    [][\A session_id \in SessionIds :
          \/ Only(sessions', session_id) = Only(sessions, session_id)
          \/ Only(sessions', session_id) = get_session(Only(sessions, session_id), session_id)
          \/ session_id = Served /\ OwnStep(session_id)]_vars

\* both requests are in their generation attempts at once, and the
\* MealPlanner they share is bound to the session of the thread that waits
C29_Witness ==
    /\ call.fn = "serving"
    /\ pc = "generate"
    /\ call.waiting.pc = "generate"
    /\ call.session_id = call.waiting.client
    /\ Len(sessions[Served].activity_log) > 0
    /\ Len(sessions[call.waiting.client].activity_log) > 0

\* ------------------------------ properties: warnings of failed attempts

\* the entry carries the warning marker of the activity log
Warns(entry) == StartsAt(entry, "Warning: ", 1)

\* the entries a step appends to the log of the session of the request
Appended ==
    SubSeq(RunningNext.activity_log,
           Len(Running.activity_log) + 1, Len(RunningNext.activity_log))

\* the entries of Appended that come before the next attempt or the fallback
\* is announced
OfAttempt ==
    LET later == {i \in 1..Len(Appended) :
                     Appended[i] \in {GeneratingEntry, "Using fallback meal plan"}}
    IN  IF later = {} THEN Appended ELSE SubSeq(Appended, 1, Least(later) - 1)

\* C30: every failed generation attempt (output without a JSON object, JSON
\* parse error, validation failure, or exception of the generation call)
\* appends at least one warning-marked entry to the activity log before the
\* next attempt or the fallback.
C30_FailedAttemptWarns ==
    [][\A case \in PlanCases :
          Generate(case) /\ ~Good(case) =>
             \E i \in 1..Len(OfAttempt) : Warns(OfAttempt[i])]_vars

\* ------------------------------ properties: restrictions only accumulate

\* the messages of DietTexts that say "no preferences", "no dietary" or
\* "no ... allergies"
NoneTexts ==
    { "no allergies", "no preferences", "no dietary restrictions, I like rice",
      "I have no allergies but I am vegan" }

\* the dietary restrictions of a slots dict, none when the key is missing
RestrictionsOf(d) == IF Has(d, "dietary_restrictions") THEN d["dietary_restrictions"] ELSE << >>

\* the preferences of a slots dict, "" when the key is missing
PreferencesOf(d) == IF Has(d, "preferences") THEN d["preferences"] ELSE ""

\* no tag occurs twice in the list
NoDuplicate(tags) == \A i, j \in 1..Len(tags) : tags[i] = tags[j] => i = j

\* C31: dietary restrictions only accumulate during collection: the slots a
\* collecting_info message leaves (the dict _extract_user_data returns, which
\* process_message stores as they are) hold every restriction the slots held
\* before, in the same order, and no tag twice; and a message that says
\* "no preferences", "no dietary" or "no ... allergies" removes or overwrites
\* neither the restrictions nor the preferences that were already set.
C31_RestrictionsAccumulate ==
    ExtractReturned =>
        /\ Len(RestrictionsOf(call.returned)) >= Len(RestrictionsOf(call.given))
        /\ SubSeq(RestrictionsOf(call.returned), 1, Len(RestrictionsOf(call.given)))
               = RestrictionsOf(call.given)
        /\ NoDuplicate(RestrictionsOf(call.returned))
        /\ call.text \in NoneTexts /\ PreferencesOf(call.given) # "" =>
               StartsAt(PreferencesOf(call.returned), PreferencesOf(call.given), 1)

\* "I have no allergies but I am vegan" has kept vegan and halal as they
\* were, once each, and the preference that was set
C31_Witness ==
    /\ ExtractReturned
    /\ call.text = "I have no allergies but I am vegan"
    /\ RestrictionsOf(call.given) = <<"vegan", "halal">>
    /\ RestrictionsOf(call.returned) = <<"vegan", "halal">>
    /\ PreferencesOf(call.given) = "rice"
    /\ PreferencesOf(call.returned) = "rice"

\* ------------------------------------ properties: the pools of the fallback

\* the templates of the pool whose every ingredient matches a name of the
\* catalog (available_lower holds its names in lower case), in the order of
\* the pool
MatchingTemplates(options, available_lower) ==
    SelectSeq(options,
              LAMBDA m : \A j \in 1..Len(m.ingredients) :
                             FuzzyAvailable(lower(m.ingredients[j].name), available_lower))

\* the pool the fallback planner selects from: the matching templates, or
\* all templates when none matches
ExpectedPool(options, matching) == IF matching = << >> THEN options ELSE matching

\* the three pools for a catalog
ExpectedPools(ingredients) ==
    LET pools(available_lower) ==
            [t \in {"breakfast", "lunch", "dinner"} |->
                ExpectedPool(TemplatePool[t],
                             MatchingTemplates(TemplatePool[t], available_lower))]
    IN  pools(LowerNamesOf(ingredients))

\* the meal is this template, whatever its cost
IsTemplate(meal, template) == [meal EXCEPT !.cost = template.cost] = template

\* every meal of the plan is element i mod (pool size) of its pool on day i
Cycles(plan, pools) ==
    \A t \in {"breakfast", "lunch", "dinner"} :
        /\ Len(TemplatePool[t]) = 3
        /\ Len(pools[t]) >= 1
        /\ \A i \in 0..6 :
              IsTemplate(plan.days[i + 1].meals[t], pools[t][(i % Len(pools[t])) + 1])

\* C32: in the fallback planner each of the three meal pools is the sub-list
\* of its 3 templates whose every ingredient fuzzy-matches the catalog, or
\* the full unfiltered pool when that sub-list is empty, so no pool is ever
\* empty; day i (0..6) takes element i mod (pool size) of each pool, so the
\* meals cycle through the pool in order.
C32_PoolsCycle ==
    FallbackReturned => Cycles(call.returned, ExpectedPools(call.ingredients))

\* a catalog that matches one template of each pool: every day has the same
\* three meals, which are not the first templates of breakfast and lunch
C32_Witness ==
    /\ FallbackReturned
    /\ call.ingredients = CostlyCatalog
    /\ call.returned.days[1].meals.breakfast.name # breakfast_options[1].name
    /\ \A i \in 1..7 : call.returned.days[i].meals.breakfast.name
                          = call.returned.days[1].meals.breakfast.name

\* ------------------------------------ a client that names odd quantities

\* the texts of a client whose household sizes and budgets lie in, on the
\* edge of and outside the accepted ranges
CollectMessages ==
    { "Hello",
      "no",
      "25 people",
      "We are 20 people",
      "2 people in Ottawa, budget is $5 per week",
      "budget is $10000.50",
      "budget is $10000",
      "Yes" }

InitCollect ==
    /\ sessions = << >>
    /\ api_key \in BOOLEAN
    /\ pc = "idle"
    /\ req = << >>
    /\ response = << >>
    /\ work = << >>
    /\ memo = Memo(CollectMessages, Catalogs, KnownNames)
    /\ call = NoCall

\* the client chats as session "default", and the planning run it starts
\* takes its steps
NextCollect ==
    \/ \E user_message \in CollectMessages : Chat("default", user_message, "text")
    \/ \E ingredients \in Catalogs : Research(ingredients)
    \/ \E case \in PlanOutputs : Generate(case)

CollectSpec == InitCollect /\ [][NextCollect]_vars

\* ------------------------------------------ properties: slots in range

\* C33: in every reachable session state, the people slot, when present, is
\* an integer in 1..20 and the budget slot, when present, is a number in
\* [10, 10000] (1000..1000000 cents): no sequence of messages can store an
\* out-of-range household size or budget.
C33_SlotsInRange ==
    \A session_id \in DOMAIN sessions :
        /\ Has(sessions[session_id].user_data, "people") =>
              sessions[session_id].user_data["people"] \in 1..20
        /\ Has(sessions[session_id].user_data, "budget") =>
              /\ sessions[session_id].user_data["budget"] >= 10 * 100
              /\ sessions[session_id].user_data["budget"] <= 10000 * 100

\* the client has named 25 people and a budget of $10000.50 in turn, and
\* the slots still hold the 20 people and the $10000 it had named before
C33_Witness ==
    /\ Has(sessions, "default")
    /\ Slot(sessions["default"].user_data, "people") = <<20>>
    /\ Slot(sessions["default"].user_data, "budget") = <<1000000>>
    /\ \E i \in 1..Len(sessions["default"].conversation_history) :
          /\ sessions["default"].conversation_history[i].content = "25 people"
          /\ \E j \in 1..(i - 1) :
                sessions["default"].conversation_history[j].content = "We are 20 people"

\* ------------------------------- properties: required slots are present

\* the slots a plan is made from are all there
RequiredSlots(user_data) ==
    /\ Truthy(user_data, "people")
    /\ Truthy(user_data, "budget")
    /\ Truthy(user_data, "location")

\* C34: in every reachable session state, if the state is confirm,
\* processing or complete then the slots people, budget and location are all
\* present; consequently the planner is never invoked with a missing
\* required slot: while a planning run is in its research or generation
\* step, the slots of its session are all present.
C34_RequiredSlotsPresent ==
    /\ \A session_id \in DOMAIN sessions :
          sessions[session_id].state \in {"confirm", "processing", "complete"} =>
              RequiredSlots(sessions[session_id].user_data)
    /\ pc \in {"research", "generate"} => RequiredSlots(sessions[req.session_id].user_data)

\* a planning run is at its generation step for a session whose slots were
\* filled by two messages, the first of which named a budget out of range
C34_Witness ==
    /\ pc = "generate"
    /\ sessions[req.session_id].state = "processing"
    /\ RequiredSlots(sessions[req.session_id].user_data)
    /\ sessions[req.session_id].user_data["budget"] = 1000000
    /\ sessions[req.session_id].user_data["people"] = 2

\* -------------------------------- properties: the markers of completion

\* the four markers of completion of a session
Markers(session) ==
    << session.state = "complete",
       session.status = "complete",
       Has(session, "meal_plan_generated") /\ session["meal_plan_generated"],
       Has(session, "meal_plan") >>

\* C35: at the end of every chat turn the completion markers of a session
\* agree: state is complete if and only if status is complete, if and only if
\* meal_plan_generated is true, if and only if a meal plan is attached to the
\* session.
C35_MarkersAgree ==
    pc = "idle" =>
        \A session_id \in DOMAIN sessions :
            Markers(sessions[session_id]) \in
                {<<TRUE, TRUE, TRUE, TRUE>>, <<FALSE, FALSE, FALSE, FALSE>>}

\* a turn has ended with the plan attached and the four markers set, after
\* an earlier turn of the session had ended in an error
C35_Witness ==
    /\ pc = "idle"
    /\ Has(sessions, "default")
    /\ Markers(sessions["default"]) = <<TRUE, TRUE, TRUE, TRUE>>
    /\ \E i \in 1..Len(sessions["default"].activity_log) :
          StartsAt(sessions["default"].activity_log[i], "Warning: Error: ", 1)

\* ------------------------------------- the server, with runs that go on

\* the server of Spec; chat() is one sequential function whose blocking
\* calls return or raise, so a planning run that is on goes on
FairSpec ==
    /\ Init
    /\ [][Next]_vars
    /\ WF_<<pc, work>>(PlanStep)

\* ------------------------------- properties: status processing is transient

\* no chat turn is under way
TurnEnded == pc = "idle"

\* the session of the request in flight has this status
RunStatus(statuses) ==
    /\ req # << >>
    /\ Has(sessions, req.session_id)
    /\ sessions[req.session_id].status \in statuses

\* C36: status processing is transient: every chat turn that sets status to
\* processing ends with status complete or error, so at the end of any chat
\* turn status is idle, complete or error, and a session whose state is
\* processing at the end of a turn has status error.
C36_ProcessingTransient ==
    /\ [](TurnEnded =>
            \A session_id \in DOMAIN sessions :
                /\ sessions[session_id].status \in {"idle", "complete", "error"}
                /\ sessions[session_id].state = "processing" =>
                       sessions[session_id].status = "error")
    /\ RunStatus({"processing"}) ~> (TurnEnded /\ RunStatus({"complete", "error"}))

\* a turn has ended for a session that had ended a turn in an error before:
\* its run was started again and has attached a plan
C36_Witness ==
    /\ TurnEnded
    /\ RunStatus({"complete"})
    /\ \E i \in 1..Len(sessions[req.session_id].activity_log) :
          /\ StartsAt(sessions[req.session_id].activity_log[i], "Warning: Error: ", 1)
          /\ \E j \in (i + 1)..Len(sessions[req.session_id].activity_log) :
                StartsAt(sessions[req.session_id].activity_log[j], "Researching", 1)

\* ------------------------------ properties: the history records each turn

\* the conversation history of a session, empty when there is no such session
HistoryOf(store, session_id) ==
    IF session_id \in DOMAIN store THEN store[session_id].conversation_history ELSE << >>

\* the entries are by turns of the user and of the assistant, the user first
Alternates(history) ==
    \A i \in 1..Len(history) :
        history[i].role = IF i % 2 = 1 THEN "user" ELSE "assistant"

\* C37: every process_message call, in every state, records the turn in the
\* conversation history: it appends the user message followed by the assistant
\* reply it returns, so the history grows by exactly two entries per call and
\* alternates user, assistant.
C37_TurnRecorded ==
    [][\A session_id \in DOMAIN sessions' :
          HistoryOf(sessions', session_id) # HistoryOf(sessions, session_id) =>
              /\ HistoryOf(sessions', session_id) =
                     HistoryOf(sessions, session_id) \o
                     <<[role |-> "user", content |-> req'.message],
                       [role |-> "assistant", content |-> response'.message]>>
              /\ Alternates(HistoryOf(sessions', session_id))]_vars

\* --------------------------- properties: the state reported to the client

\* C38: the state reported to the client equals the stored state: when
\* process_message returns, and when the chat turn built on it returns
\* (including a turn in which planning ran and attached a plan), the reply's
\* 'state' field equals the session's state tag.
C38_ReplyStateIsStored ==
    req # << >> =>
        /\ Has(response, "state")
        /\ response["state"] = Running.state

\* ------------------------------- properties: the total the fallback reports

RECURSIVE StoredSum(_, _, _)
\* the sum of the numerators of the costs the plan gives for the slots
StoredSum(plan, slots, acc) ==
    IF slots = {} THEN acc
    ELSE LET slot == CHOOSE x \in slots : TRUE
         IN  StoredSum(plan, slots \ {slot}, acc + PlanCost(plan, slot).num)

\* the fallback planner returned a plan for a budget that was supplied
GivenBudget ==
    /\ FallbackReturned
    /\ Has(call.user_data, "budget")
    /\ call.user_data["budget"] > 0

\* cents is num/den of a cent rounded to the cent: they differ by no more than
\* half a cent
RoundedFrom(cents, num, den) ==
    \E g \in {GCD(num, den)} :
        /\ 2 * (cents * (den \div g) - num \div g) <= den \div g
        /\ 2 * (num \div g - cents * (den \div g)) <= den \div g

\* C39: for every positive budget, household size in 1..20 and catalog, the
\* fallback plan's weekly_summary.total_cost never exceeds the budget, and it
\* equals the household size times the sum of the 21 meal costs stored in the
\* returned plan's days (up to rounding).
C39_TotalWithinBudget ==
    GivenBudget =>
        \E den \in {PlanCost(call.returned, <<1, "breakfast">>).den} :
            /\ \A slot \in MealSlots : PlanCost(call.returned, slot).den = den
            /\ call.returned.weekly_summary.total_cost <= call.user_data["budget"]
            /\ \E g \in {GCD(StoredSum(call.returned, MealSlots, 0), den)} :
                  RoundedFrom(call.returned.weekly_summary.total_cost,
                              PeopleOf(call.user_data)
                                * (StoredSum(call.returned, MealSlots, 0) \div g),
                              den \div g)

\* 4 people with a budget of $50.57: the meals selected cost more, the stored
\* costs are scaled, and the total reported, $45.51, is below the budget and is
\* not to the cent the sum of the stored costs, $45.513
C39_Witness ==
    /\ GivenBudget
    /\ OverBudget
    /\ call.user_data["budget"] = 5057
    /\ PeopleOf(call.user_data) = 4
    /\ call.returned.weekly_summary.total_cost = 4551
    /\ \E den \in {PlanCost(call.returned, <<1, "breakfast">>).den} :
          \E g \in {GCD(StoredSum(call.returned, MealSlots, 0), den)} :
              /\ den > 1
              /\ PeopleOf(call.user_data) * (StoredSum(call.returned, MealSlots, 0) \div g)
                    # 4551 * (den \div g)

====
